---- MODULE Spec2Model ----
(***************************************************************************)
(* The user profiling pipeline of HumAIne-chatbot: UserProfiler            *)
(* (src/src/core/user_profiler.py) with the UserProfile entity              *)
(* (src/src/models/schemas.py), the persistence boundary                    *)
(* (src/src/core/profile_persistence.py) and the cross-session learner      *)
(* (src/src/core/cross_session_learner.py).                                 *)
(*                                                                         *)
(* Numbers.  Every float of a profile is an exact rational <<n, d>> in      *)
(* lowest terms with d > 0.  The values the model feeds in make the         *)
(* averages dyadic multiples of the inputs, which binary floating point     *)
(* also represents exactly; the ratios move in steps of 1/10, which float   *)
(* arithmetic only approximates (0.1 + 0.2 = 0.30000000000000004).          *)
(*                                                                         *)
(* Text.  A message text is abstracted to what the pipeline reads of it:    *)
(* its length in characters, whether it is all whitespace, and the four     *)
(* categorical outputs the enhanced language analyzer computes from it.     *)
(***************************************************************************)
EXTENDS Integers, Sequences, FiniteSets, TLC

VARIABLES
    user_profiles,           \* UserProfiler.user_profiles: user_id -> UserProfile | NoProfile
    profile_update_history,  \* UserProfiler.profile_update_history: user_id -> audit trail | NoHistory
    persisted,               \* data/profiles/<user_id>.json as last written | NoProfile
    pattern_cache,           \* CrossSessionLearner.pattern_cache: user_id -> patterns | NoPatterns
    session_metrics,         \* MetricsCollector.session_metrics of the session the events
                             \* belong to: the types of the entries recorded, in order
    event_loop,              \* the asyncio event loop: the coroutine that holds it, and
                             \* each handler coroutine's event and position
    call                     \* the most recent call of the public API: name, arguments,
                             \* the profile it found on entry, and what it returned

vars == <<user_profiles, profile_update_history, persisted, pattern_cache,
          session_metrics, event_loop, call>>

----------------------------------------------------------------------------
(* Exact rational arithmetic standing for Python float arithmetic.          *)

Abs(n) == IF n < 0 THEN -n ELSE n

RECURSIVE GCD(_, _)
GCD(a, b) == IF b = 0 THEN a ELSE GCD(b, a % b)

\* n / d for d > 0, in lowest terms
Rat(n, d) == LET g == GCD(Abs(n), d) IN <<n \div g, d \div g>>

FromInt(n) == <<n, 1>>

RatAdd(a, b) == Rat(a[1] * b[2] + b[1] * a[2], a[2] * b[2])

RatSub(a, b) == Rat(a[1] * b[2] - b[1] * a[2], a[2] * b[2])

RatHalf(a) == Rat(a[1], 2 * a[2])

RatMul(a, b) == Rat(a[1] * b[1], a[2] * b[2])

RatAbs(a) == <<Abs(a[1]), a[2]>>

RatLess(a, b) == a[1] * b[2] < b[1] * a[2]

RatLeq(a, b) == a[1] * b[2] <= b[1] * a[2]

RatMin(a, b) == IF RatLess(b, a) THEN b ELSE a

RatMax(a, b) == IF RatLess(a, b) THEN b ELSE a

Zero == FromInt(0)

One == FromInt(1)

\* the literal 0.1 of the feedback ratio updates
Tenth == Rat(1, 10)

----------------------------------------------------------------------------
(* The bounds of the model and the inputs it draws.                         *)

\* events (calls of the public API) per run of the general specification
MaxEvents == 2

Users == {"u1", "u2"}

\* no entry under the key (dict.get returns None)
NoProfile == [missing |-> "profile"]

NoHistory == << [missing |-> "history"] >>

NoPatterns == [missing |-> "patterns"]

\* the return value None
None == [value |-> "None"]

\* the handler coroutines of a run of the event loop
MaxTasks == 2

Tasks == 1..MaxTasks

\* a coroutine that was not created
NoTask == [missing |-> "task"]

\* no coroutine holds the event loop
Idle == 0

\* the empty dict {}
EmptyDict == [value |-> "{}"]

\* A text: its length, whether text.strip() is empty, and the analyzer's
\* categorical outputs for it.
Text(len, blank, c, v, s, e) ==
    [len |-> len, blank |-> blank, complexity_level |-> c,
     vocabulary_level |-> v, sentiment_label |-> s, enthusiasm_level |-> e]

EmptyText == Text(0, TRUE, "standard", "basic", "neutral", "low")

\* the analyzer outputs the model draws: one per branch of the rule table of
\* _update_profile_from_language_analysis
Analyses ==
    { <<"easy", "limited", "negative", "low">>,
      <<"standard", "intermediate", "neutral", "medium">>,
      <<"very_difficult", "advanced", "positive", "high">> }

\* the texts of the given lengths: the empty text for length 0, an
\* all-whitespace text for every length in blanks, and one text per other
\* length and analyzer output
TextsOf(lengths, blanks, analyses) ==
    { EmptyText : n \in lengths \cap {0} } \cup
    { Text(n, TRUE, "standard", "basic", "neutral", "low") : n \in blanks \ {0} } \cup
    { Text(n, FALSE, a[1], a[2], a[3], a[4]) : n \in lengths \ {0}, a \in analyses }

----------------------------------------------------------------------------
(* The UserProfile entity and the pure steps of the Profile Updater.        *)

\* The UserProfile entity (schemas.py): the fields of a profile, with the
\* values create_user_profile passes for the preferences, every aggregate and
\* ratio at 0 but for the grammatical accuracy, and empty histories.
\* created_at, updated_at and rl_state are not part of the record.
UserProfile(user_id, language_complexity, detail_level, response_style, accuracy) ==
    [ user_id |-> user_id,
      preferred_language_complexity |-> language_complexity,
      preferred_detail_level |-> detail_level,
      preferred_response_style |-> response_style,
      average_session_duration |-> Zero,
      average_response_time |-> Zero,
      average_typing_speed |-> Zero,
      average_sentiment_score |-> Zero,
      average_language_complexity |-> Zero,
      average_grammatical_accuracy |-> accuracy,
      total_sessions |-> 0,
      average_engagement_time |-> Zero,
      feedback_ratio |-> Zero,
      positive_feedback_ratio |-> Zero,
      session_history |-> <<>>,
      feedback_history |-> <<>>,
      cross_session_insights |-> EmptyDict ]

\* mutant: the grammatical accuracy starts at 0.0 like every other aggregate
NewUserProfileAccuracyZero(user_id) ==
    UserProfile(user_id, "medium", "medium", "conversational", Zero)

\* the profile UserProfiler.create_user_profile builds (lines 42-63)
NewUserProfile(user_id) ==
    UserProfile(user_id, "medium", "medium", "conversational", One)

\* EnhancedLanguageAnalyzer.analyze_text, as far as the profiler reads its
\* result: the four categorical outputs ("absent" for a key the result lacks).
analyze_text(text) ==
    IF text.len = 0 \/ text.blank
    THEN [ complexity_level |-> "medium", vocabulary_level |-> "medium",
           sentiment_label |-> "neutral", enthusiasm_level |-> "absent" ]
    ELSE [ complexity_level |-> text.complexity_level,
           vocabulary_level |-> text.vocabulary_level,
           sentiment_label |-> text.sentiment_label,
           enthusiasm_level |-> text.enthusiasm_level ]

\* mutant: the analyzer's level names are stored as the preferences
update_profile_from_language_analysisRawLevels(profile, analysis) ==
    [ profile EXCEPT
        !.preferred_language_complexity = analysis.complexity_level,
        !.preferred_detail_level = analysis.vocabulary_level,
        !.preferred_response_style =
            IF analysis.sentiment_label = "negative" THEN "professional"
            ELSE "conversational" ]

\* lines 155-189: the preferences the language analysis sets
update_profile_from_language_analysis(profile, analysis) ==
    LET complexity_level == analysis.complexity_level
        vocab_level == analysis.vocabulary_level
        sentiment_label == analysis.sentiment_label
        enthusiasm_level ==
            IF analysis.enthusiasm_level = "absent" THEN "low"
            ELSE analysis.enthusiasm_level
    IN [ profile EXCEPT
           !.preferred_language_complexity =
               IF complexity_level \in {"very_easy", "easy"} THEN "simple"
               ELSE IF complexity_level \in {"difficult", "very_difficult"} THEN "complex"
               ELSE "medium",
           !.preferred_detail_level =
               IF vocab_level = "advanced" THEN "detailed"
               ELSE IF vocab_level = "limited" THEN "concise"
               ELSE @,
           !.preferred_response_style =
               IF sentiment_label = "positive" /\ enthusiasm_level = "high"
               THEN "enthusiastic"
               ELSE IF sentiment_label = "negative" THEN "professional"
               ELSE "conversational" ]

\* mutant: the elapsed time is taken as abs(end - start), so an end before the
\* start still yields a speed
TypingSpeedUpdateAbs(current_avg, message_length, input_start_time, input_end_time) ==
    LET typing_duration == Abs(input_end_time - input_start_time)
    IN IF typing_duration > 0 /\ message_length > 0
       THEN RatHalf(RatAdd(current_avg, Rat(message_length * 1000, typing_duration)))
       ELSE current_avg

\* lines 194-201: the typing-speed part of _update_profile_metrics
TypingSpeedUpdate(current_avg, message_length, input_start_time, input_end_time) ==
    LET typing_duration == input_end_time - input_start_time
    IN IF typing_duration > 0 /\ message_length > 0
       THEN RatHalf(RatAdd(current_avg, Rat(message_length * 1000, typing_duration)))
       ELSE current_avg

\* lines 204-208: the message-length part of _update_profile_metrics
LengthDetailLevel(current_detail, message_length) ==
    IF message_length > 100 THEN "detailed"
    ELSE IF message_length < 20 THEN "concise"
    ELSE current_detail

\* lines 211-218: the response-time part of _update_profile_metrics
ResponseTimeUpdate(current_avg, input_sent_time) ==
    IF input_sent_time > 0
    THEN IF RatLess(Zero, current_avg)
         THEN RatHalf(RatAdd(current_avg, FromInt(input_sent_time)))
         ELSE FromInt(input_sent_time)
    ELSE current_avg

update_profile_metrics(profile, prompt_data) ==
    [ profile EXCEPT
        !.average_typing_speed =
            TypingSpeedUpdate(@, prompt_data.input_text.len,
                              prompt_data.input_start_time, prompt_data.input_end_time),
        !.preferred_detail_level = LengthDetailLevel(@, prompt_data.input_text.len),
        !.average_response_time = ResponseTimeUpdate(@, prompt_data.input_sent_time) ]

\* mutant: positive feedback jumps to the top of the scale, negative to the
\* bottom
FeedbackDetailLevelJump(current_detail, feedback_type) ==
    IF feedback_type = "positive" THEN "detailed"
    ELSE IF feedback_type = "negative" THEN "concise"
    ELSE current_detail

\* lines 235-252: the detail-level step of a feedback event
FeedbackDetailLevel(current_detail, feedback_type) ==
    IF feedback_type = "positive"
    THEN IF current_detail = "concise" THEN "medium"
         ELSE IF current_detail = "medium" THEN "detailed"
         ELSE current_detail
    ELSE IF feedback_type = "negative"
    THEN IF current_detail = "detailed" THEN "medium"
         ELSE IF current_detail = "medium" THEN "concise"
         ELSE current_detail
    ELSE current_detail

\* lines 244 and 255
PositiveFeedbackRatioUpdate(ratio, feedback_type) ==
    IF feedback_type = "positive" THEN RatMin(One, RatAdd(ratio, Tenth))
    ELSE IF feedback_type = "negative" THEN RatMax(Zero, RatSub(ratio, Tenth))
    ELSE ratio

\* mutant: the cap of line 258 is missing
FeedbackRatioUpdateUncapped(ratio) == RatAdd(ratio, Tenth)

\* line 258
FeedbackRatioUpdate(ratio) == RatMin(One, RatAdd(ratio, Tenth))

\* An entry of feedback_history: its type, and whether it carries the
\* "data" key (the entry of line 225 does, those of lines 121 and 129 do not).
FeedbackEntry(feedback_type, has_data) ==
    [ type |-> feedback_type, has_data |-> has_data ]

update_personalization_from_feedback(profile, feedback_data) ==
    LET feedback_type == feedback_data.feedback_type
    IN [ profile EXCEPT
           !.feedback_history = Append(@, FeedbackEntry(feedback_type, TRUE)),
           !.preferred_detail_level = FeedbackDetailLevel(@, feedback_type),
           !.positive_feedback_ratio = PositiveFeedbackRatioUpdate(@, feedback_type),
           !.feedback_ratio = FeedbackRatioUpdate(@) ]

\* mutant: the first value is averaged with the initial 0 like any other
TwoPointAverageNoFirst(current_avg, value) ==
    RatHalf(RatAdd(current_avg, FromInt(value)))

\* lines 326-329 and 335-338: the running average of the session metrics
TwoPointAverage(current_avg, value) ==
    IF RatLess(Zero, current_avg)
    THEN RatHalf(RatAdd(current_avg, FromInt(value)))
    ELSE FromInt(value)

\* lines 309-316: the summary appended to session_history ("data", the copy
\* of the event, adds engagement_time to the fields of the summary)
SessionEntry(session_data) ==
    [ session_id |-> session_data.session_id,
      start_time |-> session_data.session_start,
      end_time |-> session_data.session_end,
      duration |-> session_data.session_duration,
      end_type |-> session_data.session_end_type,
      engagement_time |-> session_data.engagement_time ]

\* mutant: a session_id already in session_history is not counted again
ApplySessionOnce(profile, session_data) ==
    IF \E i \in 1..Len(profile.session_history) :
           profile.session_history[i].session_id = session_data.session_id
    THEN [ profile EXCEPT !.session_history = Append(@, SessionEntry(session_data)) ]
    ELSE [ profile EXCEPT
             !.session_history = Append(@, SessionEntry(session_data)),
             !.total_sessions = @ + 1 ]

\* lines 317-338 of update_profile_from_session
ApplySession(profile, session_data) ==
    [ profile EXCEPT
        !.session_history = Append(@, SessionEntry(session_data)),
        !.total_sessions = @ + 1,
        !.average_session_duration =
            IF session_data.session_duration # 0
            THEN TwoPointAverage(@, session_data.session_duration)
            ELSE @,
        !.average_engagement_time =
            IF session_data.engagement_time # 0
            THEN TwoPointAverage(@, session_data.engagement_time)
            ELSE @ ]

----------------------------------------------------------------------------
(* The cross-session learner.  Of each pattern group the model keeps the    *)
(* entries that the insights, the recommendations and the profiler's        *)
(* callers read; the duration statistics, the time-of-day histogram, the    *)
(* expertise progression and the adaptability score are left out.           *)

\* dict.get(key, default)
Get(bag, key, default) == IF key \in DOMAIN bag THEN bag[key] ELSE default

\* Python's "part in string"
Contains(string, part) ==
    \E i \in 1..(Len(string) - Len(part) + 1) :
        SubSeq(string, i, i + Len(part) - 1) = part

\* (datetime.utcnow() - profile.created_at).days of line 99, for the
\* profiler's handlers: the events of a run arrive on the day the profile
\* was created
DaysSinceCreation == 0

RECURSIVE SumOfDurations(_)
SumOfDurations(sessions) ==
    IF sessions = <<>> THEN 0
    ELSE sessions[1].duration + SumOfDurations(Tail(sessions))

\* np.mean of the durations of a non-empty list of sessions
MeanDuration(sessions) == Rat(SumOfDurations(sessions), Len(sessions))

\* lines 99-104
analyze_timing_patterns(profile, days) ==
    LET sessions == profile.session_history
    IN [ total_sessions |-> Len(sessions),
         session_frequency_per_day |->
             Rat(Len(sessions), IF days > 1 THEN days ELSE 1) ]

\* lines 247-253: s.get('session_end_type') of an entry of session_history
calculate_completion_rate(sessions) ==
    IF sessions = <<>>
    THEN Zero
    ELSE Rat(Cardinality({ i \in 1..Len(sessions) :
                             /\ "session_end_type" \in DOMAIN sessions[i]
                             /\ sessions[i]["session_end_type"] = "completed" }),
             Len(sessions))

\* lines 124-133
EngagementTrend(sessions) ==
    IF Len(sessions) > 1
    THEN LET half == Len(sessions) \div 2
             early_sessions == SubSeq(sessions, 1, half)
             late_sessions == SubSeq(sessions, half + 1, Len(sessions))
         IN IF RatLess(MeanDuration(early_sessions), MeanDuration(late_sessions))
            THEN "increasing"
            ELSE "decreasing"
    ELSE "stable"

\* lines 135-140
analyze_engagement_patterns(profile) ==
    [ engagement_trend |-> EngagementTrend(profile.session_history),
      session_completion_rate |-> calculate_completion_rate(profile.session_history) ]

\* lines 150-156
ConsistencyScore(complexity_prefs, detail_prefs, style_prefs) ==
    RatAdd(RatAdd(IF complexity_prefs = "intermediate" THEN Rat(3, 10) ELSE Zero,
                  IF detail_prefs = "balanced" THEN Rat(3, 10) ELSE Zero),
           IF style_prefs = "conversational" THEN Rat(4, 10) ELSE Zero)

\* lines 142-168
analyze_communication_patterns(profile) ==
    [ preferred_complexity |-> profile.preferred_language_complexity,
      preferred_detail |-> profile.preferred_detail_level,
      preferred_style |-> profile.preferred_response_style,
      communication_consistency |->
          ConsistencyScore(profile.preferred_language_complexity,
                           profile.preferred_detail_level,
                           profile.preferred_response_style) ]

\* the entries of a list of feedback whose type is the given one
CountType(feedback, feedback_type) ==
    Cardinality({ i \in 1..Len(feedback) : feedback[i].type = feedback_type })

\* lines 228-245
analyze_feedback_improvement(feedback_history) ==
    IF Len(feedback_history) < 3
    THEN "insufficient_data"
    ELSE LET recent_feedback ==
                 SubSeq(feedback_history, Len(feedback_history) - 2, Len(feedback_history))
             early_feedback == SubSeq(feedback_history, 1, 3)
             recent_positive == CountType(recent_feedback, "positive")
             early_positive == CountType(early_feedback, "positive")
         IN IF recent_positive > early_positive THEN "improving"
            ELSE IF recent_positive < early_positive THEN "declining"
            ELSE "stable"

\* lines 170-199
analyze_feedback_patterns(profile) ==
    LET feedback_history == profile.feedback_history
    IN IF feedback_history = <<>>
       THEN EmptyDict
       ELSE [ total_feedback |-> Len(feedback_history),
              positive_ratio |->
                  Rat(CountType(feedback_history, "positive"), Len(feedback_history)),
              negative_ratio |->
                  Rat(CountType(feedback_history, "negative"), Len(feedback_history)),
              improvement_pattern |-> analyze_feedback_improvement(feedback_history) ]

\* lines 302-306
TimingInsights(timing) ==
    IF RatLess(FromInt(2), Get(timing, "session_frequency_per_day", Zero))
    THEN << "User is highly active with multiple daily sessions" >>
    ELSE IF RatLess(Get(timing, "session_frequency_per_day", Zero), Rat(1, 10))
    THEN << "User has infrequent usage patterns" >>
    ELSE << >>

\* lines 308-312
EngagementInsights(engagement) ==
    IF Get(engagement, "engagement_trend", "") = "increasing"
    THEN << "User engagement is improving over time" >>
    ELSE IF Get(engagement, "engagement_trend", "") = "decreasing"
    THEN << "User engagement has declined recently" >>
    ELSE << >>

\* lines 314-318
CommunicationInsights(communication) ==
    IF RatLess(Rat(8, 10), Get(communication, "communication_consistency", Zero))
    THEN << "User has consistent communication preferences" >>
    ELSE << "User shows varied communication preferences" >>

\* lines 320-324
FeedbackInsights(feedback) ==
    IF RatLess(Rat(7, 10), Get(feedback, "positive_ratio", Zero))
    THEN << "User is generally satisfied with responses" >>
    ELSE IF RatLess(Rat(1, 2), Get(feedback, "negative_ratio", Zero))
    THEN << "User frequently provides negative feedback" >>
    ELSE << >>

\* lines 298-326
generate_insights(timing, engagement, communication, feedback) ==
    TimingInsights(timing) \o EngagementInsights(engagement)
        \o CommunicationInsights(communication) \o FeedbackInsights(feedback)

\* lines 333-348: what one insight appends to the recommendations
RecommendationsOf(insight) ==
    IF Contains(insight, "highly active")
    THEN << "Consider providing more detailed responses to maintain engagement" >>
    ELSE IF Contains(insight, "infrequent usage")
    THEN << "Focus on concise, impactful responses to encourage return visits" >>
    ELSE IF Contains(insight, "engagement improving")
    THEN << "Continue current approach as it's working well" >>
    ELSE IF Contains(insight, "engagement declined")
    THEN << "Review recent interactions and adjust response strategy" >>
    ELSE IF Contains(insight, "consistent preferences")
    THEN << "Maintain current personalization approach" >>
    ELSE IF Contains(insight, "varied preferences")
    THEN << "Adapt responses dynamically based on context" >>
    ELSE IF Contains(insight, "generally satisfied")
    THEN << "Maintain current response quality and style" >>
    ELSE IF Contains(insight, "negative feedback")
    THEN << "Review and improve response accuracy and relevance" >>
    ELSE << >>

\* lines 328-350
RECURSIVE generate_recommendations(_)
generate_recommendations(insights) ==
    IF insights = <<>> THEN <<>>
    ELSE RecommendationsOf(insights[1]) \o generate_recommendations(Tail(insights))

\* lines 36-47: the four pattern groups of a profile with sessions
PatternGroups(profile, days) ==
    [ timing |-> analyze_timing_patterns(profile, days),
      engagement |-> analyze_engagement_patterns(profile),
      communication |-> analyze_communication_patterns(profile),
      feedback |-> analyze_feedback_patterns(profile) ]

InsightsOf(groups) ==
    generate_insights(groups.timing, groups.engagement, groups.communication,
                      groups.feedback)

\* CrossSessionLearner.analyze_user_patterns: {} for no profile or a profile
\* without sessions, otherwise the patterns, the insights and the
\* recommendations
analyze_patterns_after(profile, days) ==
    IF profile = NoProfile \/ profile.session_history = <<>>
    THEN EmptyDict
    ELSE LET groups == PatternGroups(profile, days)
         IN [ patterns |-> groups,
              insights |-> InsightsOf(groups),
              recommendations |-> generate_recommendations(InsightsOf(groups)) ]

analyze_user_patterns(profile) == analyze_patterns_after(profile, DaysSinceCreation)

\* lines 50-57: the cache entry analyze_user_patterns leaves (last_updated
\* is left out)
CacheEntry(profile, days) ==
    LET groups == PatternGroups(profile, days)
    IN [ timing |-> groups.timing,
         engagement |-> groups.engagement,
         communication |-> groups.communication,
         feedback |-> groups.feedback,
         insights |-> InsightsOf(groups) ]

\* UserProfiler._update_cross_session_learning: the profile after
\* cross_session_insights.update(patterns)
RefreshInsights(profile) ==
    IF analyze_user_patterns(profile) = EmptyDict
    THEN profile
    ELSE [ profile EXCEPT !.cross_session_insights = analyze_user_patterns(profile) ]

\* the learner's cache entry after analyze_user_patterns(user_id, profiles)
RefreshCache(cached, profile) ==
    IF analyze_user_patterns(profile) = EmptyDict
    THEN cached
    ELSE CacheEntry(profile, DaysSinceCreation)

----------------------------------------------------------------------------
(* The public operations of UserProfiler.                                   *)

Init ==
    /\ user_profiles = [u \in Users |-> NoProfile]
    /\ profile_update_history = [u \in Users |-> NoHistory]
    /\ persisted = [u \in Users |-> NoProfile]
    /\ pattern_cache = [u \in Users |-> NoPatterns]
    /\ session_metrics = <<>>
    /\ event_loop = [running |-> Idle, tasks |-> [t \in Tasks |-> NoTask]]
    /\ call = [op |-> "init", n |-> 0]

\* the audit trail after create_user_profile (when the user was unknown) and
\* _record_profile_update
RecordProfileUpdate(history, found, update_type, data) ==
    LET base == IF found = NoProfile \/ history = NoHistory THEN <<>> ELSE history
    IN Append(base, [type |-> update_type, data |-> data])

\* What one write of a profile file does: the file is written; or open()
\* fails and the file stays as it was; or the write fails after open() has
\* truncated the file, which leaves no readable JSON.
DiskOutcomes == {"written", "unchanged", "truncated"}

CorruptFile == [missing |-> "readable json"]

\* ProfilePersistence.save_profile: the user's file after the call.  Every
\* failure is caught inside save_profile, which then returns False; no
\* caller looks at the return value.
save_profile(on_disk, profile, disk) ==
    CASE disk = "written" -> profile
      [] disk = "unchanged" -> on_disk
      [] OTHER -> CorruptFile

\* mutant: a failed write aborts the handler before the profile is stored
StoreSaveRefreshAbortOnFailure(user_id, profile, disk) ==
    /\ user_profiles' =
           [user_profiles EXCEPT
               ![user_id] = IF disk = "written" THEN RefreshInsights(profile) ELSE @]
    /\ persisted' = [persisted EXCEPT ![user_id] = save_profile(@, profile, disk)]
    /\ pattern_cache' = [pattern_cache EXCEPT ![user_id] = RefreshCache(@, profile)]

\* The tail every update handler shares: store the profile, save it to disk,
\* then refresh the cross-session insights of the stored profile.
StoreSaveRefresh(user_id, profile, disk) ==
    /\ user_profiles' = [user_profiles EXCEPT ![user_id] = RefreshInsights(profile)]
    /\ persisted' = [persisted EXCEPT ![user_id] = save_profile(@, profile, disk)]
    /\ pattern_cache' = [pattern_cache EXCEPT ![user_id] = RefreshCache(@, profile)]

create_user_profile(user_id, disk) ==
    /\ user_profiles' = [user_profiles EXCEPT ![user_id] = NewUserProfile(user_id)]
    /\ profile_update_history' = [profile_update_history EXCEPT ![user_id] = <<>>]
    /\ persisted' =
           [persisted EXCEPT ![user_id] = save_profile(@, NewUserProfile(user_id), disk)]
    /\ UNCHANGED <<pattern_cache, session_metrics, event_loop>>
    /\ call' = [ op |-> "create_user_profile", n |-> call.n + 1, user_id |-> user_id,
                 found |-> user_profiles[user_id], disk |-> disk,
                 ret |-> NewUserProfile(user_id) ]

\* mutant: the analysis-based rules run after the metrics, so the vocabulary
\* level overrides the length rule
PromptProfileAnalysisLast(found, prompt_data) ==
    LET created == IF found = NoProfile THEN NewUserProfile(prompt_data.user_id) ELSE found
        measured == update_profile_metrics(created, prompt_data)
    IN IF prompt_data.input_text.len > 0
       THEN update_profile_from_language_analysis(
                measured, analyze_text(prompt_data.input_text))
       ELSE measured

\* lines 79-92: the profile a message event produces
PromptProfile(found, prompt_data) ==
    LET created == IF found = NoProfile THEN NewUserProfile(prompt_data.user_id) ELSE found
        analysed ==
            IF prompt_data.input_text.len > 0
            THEN update_profile_from_language_analysis(
                     created, analyze_text(prompt_data.input_text))
            ELSE created
    IN update_profile_metrics(analysed, prompt_data)

\* What EnhancedLanguageAnalyzer.analyze_text does with a text that is not
\* blank: it returns its analysis, or it raises (sent_tokenize is called
\* outside every try of the analyzer and raises LookupError where the
\* tokenizer data is not installed).
AnalyzerOutcomes == {"returns", "raises"}

LookupError == [raised |-> "LookupError"]

\* line 88 runs analyze_text for a text that is not empty; analyze_text
\* answers a blank text before it reaches the tokenizer
AnalysisRaises(prompt_data, analyzer) ==
    /\ analyzer = "raises"
    /\ prompt_data.input_text.len > 0
    /\ ~prompt_data.input_text.blank

\* The effect of update_profile_from_prompt on the profiler.  The call of
\* analyze_text at line 88 stands outside every try of the handler, so an
\* exception of the analyzer leaves the handler there: by then only the
\* default profile of an unknown user has been stored and saved (lines 82-83).
ApplyPrompt(prompt_data, analyzer, disk) ==
    LET user_id == prompt_data.user_id
        found == user_profiles[user_id]
    IN IF AnalysisRaises(prompt_data, analyzer)
       THEN /\ user_profiles' =
                   [user_profiles EXCEPT
                       ![user_id] = IF found = NoProfile THEN NewUserProfile(user_id) ELSE @]
            /\ profile_update_history' =
                   [profile_update_history EXCEPT
                       ![user_id] = IF found = NoProfile THEN <<>> ELSE @]
            /\ persisted' =
                   [persisted EXCEPT
                       ![user_id] = IF found = NoProfile
                                    THEN save_profile(@, NewUserProfile(user_id), disk)
                                    ELSE @]
            /\ UNCHANGED pattern_cache
       ELSE /\ StoreSaveRefresh(user_id, PromptProfile(found, prompt_data), disk)
            /\ profile_update_history' =
                   [profile_update_history EXCEPT
                       ![user_id] = RecordProfileUpdate(@, found, "prompt_update", prompt_data)]

update_profile_from_prompt(prompt_data, analyzer, disk) ==
    /\ ApplyPrompt(prompt_data, analyzer, disk)
    /\ UNCHANGED <<session_metrics, event_loop>>
    /\ call' = [ op |-> "update_profile_from_prompt", n |-> call.n + 1,
                 user_id |-> prompt_data.user_id, data |-> prompt_data,
                 found |-> user_profiles[prompt_data.user_id],
                 analyzer |-> analyzer, disk |-> disk,
                 ret |-> IF AnalysisRaises(prompt_data, analyzer)
                         THEN LookupError ELSE None ]

\* lines 111-138: the profile a feedback event produces
FeedbackProfile(found, feedback_data) ==
    LET created == IF found = NoProfile THEN NewUserProfile(feedback_data.user_id) ELSE found
        feedback_type == feedback_data.feedback_type
        counted ==
            IF feedback_type \in {"positive", "negative"}
            THEN [ created EXCEPT
                     !.feedback_history = Append(@, FeedbackEntry(feedback_type, FALSE)) ]
            ELSE created
    IN update_personalization_from_feedback(counted, feedback_data)

\* the effect of update_profile_from_feedback on the profiler
ApplyFeedback(feedback_data, disk) ==
    LET user_id == feedback_data.user_id
        found == user_profiles[user_id]
    IN /\ StoreSaveRefresh(user_id, FeedbackProfile(found, feedback_data), disk)
       /\ profile_update_history' =
              [profile_update_history EXCEPT
                  ![user_id] = RecordProfileUpdate(@, found, "feedback_update", feedback_data)]

update_profile_from_feedback(feedback_data, disk) ==
    LET user_id == feedback_data.user_id
        found == user_profiles[user_id]
    IN /\ ApplyFeedback(feedback_data, disk)
       /\ UNCHANGED <<session_metrics, event_loop>>
       /\ call' = [ op |-> "update_profile_from_feedback", n |-> call.n + 1,
                    user_id |-> user_id, data |-> feedback_data, found |-> found,
                    disk |-> disk, ret |-> None ]

update_profile_from_session(user_id, session_data, disk) ==
    LET found == user_profiles[user_id]
    IN IF found = NoProfile
       THEN /\ UNCHANGED <<user_profiles, profile_update_history, persisted, pattern_cache,
                           session_metrics, event_loop>>
            /\ call' = [ op |-> "update_profile_from_session", n |-> call.n + 1,
                         user_id |-> user_id, data |-> session_data, found |-> found,
                         disk |-> disk, ret |-> None ]
       ELSE /\ StoreSaveRefresh(user_id, ApplySession(found, session_data), disk)
            /\ UNCHANGED <<profile_update_history, session_metrics, event_loop>>
            /\ call' = [ op |-> "update_profile_from_session", n |-> call.n + 1,
                         user_id |-> user_id, data |-> session_data, found |-> found,
                         disk |-> disk,
                         ret |-> RefreshInsights(ApplySession(found, session_data)) ]

\* the outcome of reading profile.personalization_parameters: UserProfile
\* declares no such field, and reading an undeclared attribute of a pydantic
\* model raises AttributeError
AttributeError == [raised |-> "AttributeError"]

PersonalizationParameters(profile) ==
    IF profile # NoProfile THEN AttributeError ELSE EmptyDict

get_personalization_parameters(user_id) ==
    /\ UNCHANGED <<user_profiles, profile_update_history, persisted, pattern_cache,
                   session_metrics, event_loop>>
    /\ call' = [ op |-> "get_personalization_parameters", n |-> call.n + 1,
                 user_id |-> user_id, found |-> user_profiles[user_id],
                 ret |-> PersonalizationParameters(user_profiles[user_id]) ]

\* What ProfilePersistence.delete_profile meets on disk: unlink removes the
\* file, or it raises; delete_profile catches the exception and returns False.
UnlinkOutcomes == {"removed", "fails"}

\* mutant: the file is never removed
delete_profileKeepsFile(on_disk, unlink) == on_disk

\* ProfilePersistence.delete_profile: the user's file after the call
delete_profile(on_disk, unlink) ==
    IF unlink = "removed" THEN NoProfile ELSE on_disk

\* mutant: the user's cache entry survives
clear_cacheKeepsEntry(cached) == cached

\* CrossSessionLearner.clear_cache(user_id): the user's cache entry after
\* pattern_cache.pop(user_id, None)
clear_cache(cached) == NoPatterns

\* CrossSessionLearner.get_user_insights: pattern_cache.get(user_id, {})
get_user_insights(cache, user_id) ==
    IF cache[user_id] = NoPatterns THEN EmptyDict ELSE cache[user_id]

\* UserProfiler.delete_user_profile.  The result of delete_profile is not
\* looked at: True is returned whenever the user had an in-memory profile.
delete_user_profile(user_id, unlink) ==
    LET found == user_profiles[user_id]
    IN /\ IF found # NoProfile
          THEN /\ user_profiles' = [user_profiles EXCEPT ![user_id] = NoProfile]
               /\ profile_update_history' =
                      [profile_update_history EXCEPT ![user_id] = NoHistory]
               /\ persisted' = [persisted EXCEPT ![user_id] = delete_profile(@, unlink)]
               /\ pattern_cache' = [pattern_cache EXCEPT ![user_id] = clear_cache(@)]
          ELSE UNCHANGED <<user_profiles, profile_update_history, persisted, pattern_cache>>
       /\ UNCHANGED <<session_metrics, event_loop>>
       /\ call' = [ op |-> "delete_user_profile", n |-> call.n + 1, user_id |-> user_id,
                    found |-> found, unlink |-> unlink,
                    before |-> [ user_profiles |-> user_profiles,
                                 pattern_cache |-> pattern_cache,
                                 persisted |-> persisted ],
                    ret |-> found # NoProfile ]

----------------------------------------------------------------------------
(* ProfilePersistence: the conversions between a profile and its file.      *)

\* A datetime, t counting microseconds; the two strings a datetime is
\* written as: datetime.isoformat() ("2024-01-01T12:00:00.000001") and
\* str(datetime) ("2024-01-01 12:00:00.000001").
DateTime(t) == [ datetime |-> t ]

IsDateTime(value) == DOMAIN value = {"datetime"}

isoformat(dt) == [ str |-> "YYYY-MM-DDTHH:MM:SS.ffffff", t |-> dt.datetime ]

str(dt) == [ str |-> "YYYY-MM-DD HH:MM:SS.ffffff", t |-> dt.datetime ]

\* datetime.fromisoformat of a string either of the two conversions wrote
fromisoformat(string) == DateTime(string.t)

\* A profile with its timestamps: the fields of UserProfile the conversions
\* treat in different ways (datetime fields, a number, a list of dicts
\* holding datetimes).
DatedProfile(user_id, created_at, updated_at, total_sessions, feedback_history) ==
    [ user_id |-> user_id,
      created_at |-> created_at,
      updated_at |-> updated_at,
      total_sessions |-> total_sessions,
      feedback_history |-> feedback_history ]

\* user_profiler.py lines 121-127: an entry of feedback_history
DatedFeedbackEntry(feedback_type, timestamp) ==
    [ type |-> feedback_type, timestamp |-> timestamp ]

\* _profile_to_dict: a copy of the fields with created_at and updated_at
\* in ISO format
profile_to_dict(profile) ==
    [ profile EXCEPT !.created_at = isoformat(@), !.updated_at = isoformat(@) ]

\* json.dump(profile_dict, f, default=str): the document written; every
\* value json cannot encode, here the datetime of a feedback entry, goes
\* through str()
json_dump(profile_dict) ==
    [ json |->
        [ profile_dict EXCEPT
            !.feedback_history =
                [ i \in DOMAIN @ |->
                    [ @[i] EXCEPT !.timestamp = IF IsDateTime(@) THEN str(@) ELSE @ ] ] ] ]

\* json.load: the dict the document holds
json_load(file) == file.json

\* _dict_to_profile: created_at and updated_at are parsed, every other key
\* is set on the new profile as loaded
dict_to_profile(profile_dict) ==
    [ profile_dict EXCEPT
        !.created_at = fromisoformat(@),
        !.updated_at = fromisoformat(@) ]

\* load_profile: None without a file or when the file cannot be parsed
load_profile(file) ==
    IF file \in {NoProfile, CorruptFile}
    THEN None
    ELSE dict_to_profile(json_load(file))

\* save_profile followed by load_profile of the same user
SaveAndLoad(profile, disk) ==
    /\ persisted' =
           [persisted EXCEPT
               ![profile.user_id] = save_profile(@, json_dump(profile_to_dict(profile)), disk)]
    /\ UNCHANGED <<user_profiles, profile_update_history, pattern_cache, session_metrics, event_loop>>
    /\ call' = [ op |-> "save_and_load", n |-> call.n + 1,
                 user_id |-> profile.user_id, profile |-> profile, disk |-> disk,
                 ret |-> load_profile(persisted'[profile.user_id]) ]

----------------------------------------------------------------------------
(* OpenAIIntegration and DialogueManager.process_user_input.                *)

\* DialogueManager.process_user_input, lines 57-64: the parameter bag built
\* from the stored profile
PersonalizationBag(profile) ==
    [ temperature |-> Rat(7, 10),
      max_tokens |-> 1000,
      detail_level |-> profile.preferred_detail_level,
      expertise_level |-> "beginner",
      preferred_language_complexity |-> profile.preferred_language_complexity,
      preferred_response_style |-> profile.preferred_response_style ]

ComplexityInstruction(language_complexity) ==
    CASE language_complexity = "simple" ->
             "Use simple vocabulary and short sentences. Avoid technical jargon."
      [] language_complexity = "complex" ->
             "Use advanced vocabulary and detailed explanations. Include technical terms when appropriate."
      [] OTHER -> "Use standard vocabulary and balanced explanations."

StyleInstruction(response_style) ==
    CASE response_style = "conversational" ->
             "Maintain a friendly and casual tone. Use conversational language."
      [] response_style = "professional" ->
             "Maintain a formal and professional tone. Use business-appropriate language."
      [] response_style = "enthusiastic" ->
             "Maintain an excited and motivational tone. Show enthusiasm in responses."
      [] OTHER -> "Maintain a balanced and neutral tone."

DetailInstruction(detail_level) ==
    CASE detail_level = "concise" ->
             "Provide brief and direct answers. Focus on essential information."
      [] detail_level = "detailed" ->
             "Provide comprehensive explanations with examples and context."
      [] OTHER -> "Provide balanced explanations with appropriate detail."

UserTypeInstruction(user_type) ==
    CASE user_type = "technical_expert" ->
             << "This user has technical expertise. You can use advanced technical concepts." >>
      [] user_type = "casual_user" ->
             << "This user prefers casual conversation. Keep responses friendly and accessible." >>
      [] user_type = "professional_user" ->
             << "This user prefers professional communication. Maintain formal standards." >>
      [] OTHER -> <<>>

EngagementInstruction(engagement_level) ==
    CASE engagement_level = "high" ->
             << "This user is highly engaged. Provide detailed and interactive responses." >>
      [] engagement_level = "low" ->
             << "This user may have limited engagement. Keep responses concise and clear." >>
      [] OTHER -> <<>>

\* OpenAIIntegration._build_system_prompt without system_context: the
\* sentences of the prompt, which the code joins with single spaces
build_system_prompt(personalization_params) ==
    << "You are a helpful AI assistant.",
       ComplexityInstruction(Get(personalization_params, "language_complexity", "medium")),
       StyleInstruction(Get(personalization_params, "response_style", "balanced")),
       DetailInstruction(Get(personalization_params, "detail_level", "medium")) >>
    \o UserTypeInstruction(Get(personalization_params, "user_type", "general"))
    \o EngagementInstruction(Get(personalization_params, "engagement_level", "medium"))

\* OpenAIIntegration._generate_mock_response for a message without one of
\* the keywords it answers specially: the sentence pattern chosen by
\* response_style and detail_level
MockResponse(personalization_params) ==
    LET response_style == Get(personalization_params, "response_style", "balanced")
        detail_level == Get(personalization_params, "detail_level", "medium")
    IN [ kind |-> "mock",
         text |->
             IF response_style = "conversational"
             THEN CASE detail_level = "concise" ->
                           "That's an interesting question about '{user_message}'! I'd be happy to help. What specifically would you like to know?"
                    [] detail_level = "detailed" ->
                           "Great question! '{user_message}' is a fascinating topic. I'd love to dive deep into this with you. What aspect interests you most?"
                    [] OTHER ->
                           "Thanks for asking about '{user_message}'! I'd be glad to help you understand this better. What would you like to know?"
             ELSE IF response_style = "professional"
             THEN IF detail_level = "concise"
                  THEN "Regarding your question about '{user_message}', I can provide a focused response. What specific information are you seeking?"
                  ELSE "Your inquiry about '{user_message}' is well-timed. I'd be happy to provide comprehensive information. What aspects would you like me to cover?"
             ELSE "I appreciate your question about '{user_message}'. How can I best assist you with this topic?" ]

\* the text of the completion the API returned for a system prompt
GeneratedResponse(system_prompt) ==
    [ kind |-> "generated", text |-> "response.choices[0].message.content" ]

\* dialogue_manager.py line 76
ApologyMessage ==
    [ kind |-> "apology",
      text |-> "I'm sorry, I'm having trouble connecting to my AI service right now. Please try again later." ]

\* dialogue_manager.py line 85
ErrorMessage ==
    [ kind |-> "error",
      text |-> "I'm sorry, I encountered an error processing your message. Please try again." ]

\* The external service as generate_response meets it: no client was built
\* (no API key or no library), or the completion call answers, or it raises.
LlmOutcomes == {"no client", "answers", "fails"}

\* OpenAIIntegration.generate_response: without a client, and whenever the
\* API call raises, the mock response is returned
generate_response(personalization_params, llm) ==
    IF llm = "answers"
    THEN GeneratedResponse(build_system_prompt(personalization_params))
    ELSE MockResponse(personalization_params)

\* the system prompt sent with the completion request; none without a client
SystemPromptSent(personalization_params, llm) ==
    IF llm = "no client" THEN <<>> ELSE build_system_prompt(personalization_params)

\* DialogueManager.process_user_input: record the prompt, update the
\* profile, build the bag from the stored profile, generate, record the
\* response.  An exception of the profile update is caught by the outer
\* handler (lines 83-85).
process_user_input(prompt_data, analyzer, disk, llm) ==
    LET user_id == prompt_data.user_id
        found == user_profiles[user_id]
        user_profile == RefreshInsights(PromptProfile(found, prompt_data))
        personalization_params == PersonalizationBag(user_profile)
    IN /\ ApplyPrompt(prompt_data, analyzer, disk)
       /\ UNCHANGED event_loop
       /\ IF AnalysisRaises(prompt_data, analyzer)
          THEN /\ session_metrics' = Append(session_metrics, "user_prompt")
               /\ call' = [ op |-> "process_user_input", n |-> call.n + 1,
                            user_id |-> user_id, data |-> prompt_data, found |-> found,
                            analyzer |-> analyzer, disk |-> disk, llm |-> llm,
                            params |-> EmptyDict, system_prompt |-> <<>>,
                            ret |-> ErrorMessage ]
          ELSE /\ session_metrics' =
                      Append(Append(session_metrics, "user_prompt"), "bot_response")
               /\ call' = [ op |-> "process_user_input", n |-> call.n + 1,
                            user_id |-> user_id, data |-> prompt_data, found |-> found,
                            analyzer |-> analyzer, disk |-> disk, llm |-> llm,
                            params |-> personalization_params,
                            system_prompt |-> SystemPromptSent(personalization_params, llm),
                            ret |-> generate_response(personalization_params, llm) ]

\* The parameters, besides self, of the record_feedback that the class
\* MetricsCollector ends up with: the class body defines the name twice, and
\* the definition of lines 156-173 replaces the one of lines 80-109.  None
\* has a default.
record_feedback_parameters ==
    << "session_id", "response_text", "response_start_time", "response_end_time",
       "feedback_type", "feedback_time" >>

TypeError == [raised |-> "TypeError"]

\* a call that passes the given positional arguments to a function of the
\* given required parameters
CallOutcome(parameters, arguments) ==
    IF Len(arguments) = Len(parameters) THEN None ELSE TypeError

\* DialogueManager.process_feedback: record the feedback, then update the
\* profile; the handler of lines 101-102 swallows every exception.  The
\* metrics of a run are those of one UI session.
HandleFeedback(feedback_data, disk) ==
    IF CallOutcome(record_feedback_parameters, << feedback_data >>) = TypeError
    THEN UNCHANGED <<user_profiles, profile_update_history, persisted,
                     pattern_cache, session_metrics>>
    ELSE /\ session_metrics' = Append(session_metrics, "feedback")
         /\ ApplyFeedback(feedback_data, disk)

process_feedback(feedback_data, disk) ==
    LET user_id == feedback_data.user_id
        found == user_profiles[user_id]
        recorded == CallOutcome(record_feedback_parameters, << feedback_data >>)
    IN /\ HandleFeedback(feedback_data, disk)
       /\ UNCHANGED event_loop
       /\ call' = [ op |-> "process_feedback", n |-> call.n + 1, user_id |-> user_id,
                    data |-> feedback_data, found |-> found, disk |-> disk,
                    raised |-> recorded, ret |-> None ]

\* MetricsCollector.record_session: a session without metrics is started
\* under a key start_session makes up from the clock and the user
\* (line 21), after which line 119 looks the event's session_id up and
\* raises KeyError
KeyError == [raised |-> "KeyError"]

record_session(metrics) ==
    IF metrics = <<>> THEN KeyError ELSE Append(metrics, "session")

\* DialogueManager.process_session: record the session; the handler of
\* lines 115-116 swallows every exception.  The profiler is not called.
process_session(user_id, session_data) ==
    /\ session_metrics' = IF record_session(session_metrics) = KeyError
                          THEN session_metrics
                          ELSE record_session(session_metrics)
    /\ UNCHANGED <<user_profiles, profile_update_history, persisted, pattern_cache,
                   event_loop>>
    /\ call' = [ op |-> "process_session", n |-> call.n + 1, user_id |-> user_id,
                 data |-> session_data, found |-> user_profiles[user_id], ret |-> None ]

----------------------------------------------------------------------------
(* The handlers as coroutines of one asyncio event loop.  A coroutine runs  *)
(* from the point where the loop resumes it to its next await; the loop     *)
(* resumes another coroutine only there.  The profile update of a message   *)
(* is taken line by line: load the profile, compute the new values, store.  *)

\* mutant: every line of a handler is a point where the loop may switch
YieldsAtEveryLine(pc) == TRUE

\* The positions at which a coroutine has given up the event loop: before
\* its first line, at the await of dialogue_manager.py:67, and at its end.
YieldsAt(pc) == pc \in {"created", "awaiting", "done"}

\* the loop may resume coroutine t
Resumable(t) == event_loop.running \in {Idle, t}

\* coroutine t has run to the position of task
Advance(t, task) ==
    event_loop' = [ running |-> IF YieldsAt(task.pc) THEN Idle ELSE t,
                    tasks |-> [event_loop.tasks EXCEPT ![t] = task] ]

\* the HTTP layer starts the handler of an event as a new coroutine
create_task(t, handler, data) ==
    /\ event_loop.tasks[t] = NoTask
    /\ \A o \in Tasks : o < t => event_loop.tasks[o] # NoTask
    /\ event_loop' = [event_loop EXCEPT
                         !.tasks[t] = [ pc |-> "created", handler |-> handler,
                                        data |-> data, loaded |-> None,
                                        profile |-> None ]]
    /\ UNCHANGED <<user_profiles, profile_update_history, persisted, pattern_cache,
                   session_metrics>>
    /\ call' = [ op |-> "create_task", n |-> call.n, task |-> t ]

\* process_user_input up to line 83 of update_profile_from_prompt: record
\* the prompt, read the user's profile, create it when there is none
LoadProfile(t) ==
    LET task == event_loop.tasks[t]
        user_id == task.data.user_id
        found == user_profiles[user_id]
        profile == IF found = NoProfile THEN NewUserProfile(user_id) ELSE found
    IN /\ task # NoTask
       /\ task.handler = "process_user_input"
       /\ task.pc = "created"
       /\ Resumable(t)
       /\ session_metrics' = Append(session_metrics, "user_prompt")
       /\ user_profiles' = [user_profiles EXCEPT ![user_id] = profile]
       /\ profile_update_history' =
              [profile_update_history EXCEPT
                  ![user_id] = IF found = NoProfile THEN <<>> ELSE @]
       /\ persisted' =
              [persisted EXCEPT
                  ![user_id] = IF found = NoProfile
                               THEN save_profile(@, profile, "written")
                               ELSE @]
       /\ UNCHANGED pattern_cache
       /\ Advance(t, [task EXCEPT !.pc = "loaded", !.loaded = profile,
                                  !.profile = profile])
       /\ call' = [ op |-> "LoadProfile", n |-> call.n, task |-> t ]

\* lines 86-95: the new values, computed from the profile that was read
ComputeProfile(t) ==
    LET task == event_loop.tasks[t]
    IN /\ task # NoTask
       /\ task.pc = "loaded"
       /\ Resumable(t)
       /\ Advance(t, [task EXCEPT !.pc = "computed",
                                  !.profile = PromptProfile(task.loaded, task.data)])
       /\ UNCHANGED <<user_profiles, profile_update_history, persisted, pattern_cache,
                      session_metrics>>
       /\ call' = [ op |-> "ComputeProfile", n |-> call.n, task |-> t ]

\* lines 98-107, then process_user_input up to its await: store, save,
\* record the update, refresh the insights, build the parameter bag
StoreProfile(t) ==
    LET task == event_loop.tasks[t]
        user_id == task.data.user_id
    IN /\ task # NoTask
       /\ task.pc = "computed"
       /\ Resumable(t)
       /\ StoreSaveRefresh(user_id, task.profile, "written")
       /\ profile_update_history' =
              [profile_update_history EXCEPT
                  ![user_id] = RecordProfileUpdate(@, task.loaded, "prompt_update",
                                                   task.data)]
       /\ UNCHANGED session_metrics
       /\ Advance(t, [task EXCEPT !.pc = "awaiting"])
       /\ call' = [ op |-> "StoreProfile", n |-> call.n, task |-> t ]

\* lines 79-81: the response has arrived; record it and return
RecordResponse(t) ==
    LET task == event_loop.tasks[t]
    IN /\ task # NoTask
       /\ task.pc = "awaiting"
       /\ Resumable(t)
       /\ session_metrics' = Append(session_metrics, "bot_response")
       /\ UNCHANGED <<user_profiles, profile_update_history, persisted, pattern_cache>>
       /\ Advance(t, [task EXCEPT !.pc = "done"])
       /\ call' = [ op |-> "RecordResponse", n |-> call.n, task |-> t ]

\* process_feedback has no await: the loop runs it from start to end
RunFeedback(t) ==
    LET task == event_loop.tasks[t]
    IN /\ task # NoTask
       /\ task.handler = "process_feedback"
       /\ task.pc = "created"
       /\ Resumable(t)
       /\ HandleFeedback(task.data, "written")
       /\ Advance(t, [task EXCEPT !.pc = "done"])
       /\ call' = [ op |-> "RunFeedback", n |-> call.n, task |-> t ]

----------------------------------------------------------------------------
(* PromptManager.enrich_prompt.  Python strings are TLA+ strings.           *)

\* _load_prompt_templates: each template as the text before and after its
\* {personalization_context} placeholder
prompt_templates ==
    [ general |-> << "You are a helpful AI assistant. ", "" >>,
      technical |->
          << "You are a technical AI assistant with expertise in various domains. ", "" >>,
      casual |-> << "You are a friendly and conversational AI assistant. ", "" >>,
      professional |->
          << "You are a professional AI assistant focused on providing accurate and helpful information. ", "" >>,
      educational |->
          << "You are an educational AI assistant designed to help users learn and understand concepts. ", "" >> ]

\* template.format(personalization_context=...)
format(template, personalization_context) ==
    template[1] \o personalization_context \o template[2]

\* _load_personalization_rules, the entries _create_personalization_context
\* reads, each with the default it uses for a value that has no rule
vocabulary_level(language_complexity) ==
    CASE language_complexity = "simple" -> "basic"
      [] language_complexity = "complex" -> "advanced"
      [] OTHER -> "standard"

explanation_style(language_complexity) ==
    CASE language_complexity = "simple" -> "step_by_step"
      [] language_complexity = "complex" -> "comprehensive"
      [] OTHER -> "balanced"

tone(response_style) ==
    CASE response_style = "conversational" -> "friendly"
      [] response_style = "professional" -> "formal"
      [] response_style = "enthusiastic" -> "excited"
      [] OTHER -> "neutral"

formality(response_style) ==
    CASE response_style \in {"conversational", "enthusiastic"} -> "casual"
      [] response_style = "professional" -> "high"
      [] OTHER -> "moderate"

response_length(detail_level) ==
    CASE detail_level = "concise" -> "short"
      [] detail_level = "detailed" -> "comprehensive"
      [] OTHER -> "moderate"

\* separator.join(parts)
RECURSIVE Join(_, _)
Join(separator, parts) ==
    IF parts = <<>> THEN ""
    ELSE IF Len(parts) = 1 THEN parts[1]
    ELSE parts[1] \o separator \o Join(separator, Tail(parts))

\* _create_personalization_context
create_personalization_context(params) ==
    LET language_complexity == Get(params, "language_complexity", "medium")
        response_style == Get(params, "response_style", "balanced")
        detail_level == Get(params, "detail_level", "medium")
        user_type == Get(params, "user_type", "general")
        engagement_level == Get(params, "engagement_level", "medium")
        sentiment_preference == Get(params, "sentiment_preference", "neutral")
        context_parts ==
            << "Use " \o vocabulary_level(language_complexity) \o " vocabulary",
               "Provide " \o explanation_style(language_complexity) \o " explanations",
               "Maintain a " \o tone(response_style) \o " tone",
               "Use " \o formality(response_style) \o " language",
               "Provide " \o response_length(detail_level) \o " responses" >>
            \o ( CASE user_type = "technical" ->
                          << "Include technical details and specifications when relevant" >>
                   [] user_type = "casual" ->
                          << "Keep responses friendly and approachable" >>
                   [] user_type = "professional" ->
                          << "Focus on accuracy and professional presentation" >>
                   [] OTHER -> <<>> )
            \o ( CASE engagement_level = "high" ->
                          << "Encourage continued interaction and ask follow-up questions" >>
                   [] engagement_level = "low" ->
                          << "Provide direct, concise answers to maintain user interest" >>
                   [] OTHER -> <<>> )
            \o ( CASE sentiment_preference = "positive" ->
                          << "Maintain an encouraging and positive tone" >>
                   [] sentiment_preference = "negative" ->
                          << "Be empathetic and supportive in responses" >>
                   [] OTHER -> <<>> )
    IN Join(". ", context_parts) \o "."

\* mutant: every user gets the general template
select_templateAlwaysGeneral(params) == prompt_templates["general"]

\* _select_template
select_template(params) ==
    LET user_type == Get(params, "user_type", "general")
    IN IF user_type \in {"technical", "casual", "professional", "educational"}
       THEN prompt_templates[user_type]
       ELSE prompt_templates["general"]

\* the system prompt of enrich_prompt, lines 118-124
EnrichedSystemPrompt(params) ==
    format(select_template(params), create_personalization_context(params))

enrich_prompt(base_prompt, personalization_params) ==
    /\ UNCHANGED <<user_profiles, profile_update_history, persisted, pattern_cache,
                   session_metrics, event_loop>>
    /\ call' = [ op |-> "enrich_prompt", n |-> call.n + 1,
                 base_prompt |-> base_prompt, params |-> personalization_params,
                 ret |-> EnrichedSystemPrompt(personalization_params)
                             \o "\n\nUser: " \o base_prompt \o "\n\nAssistant:" ]

----------------------------------------------------------------------------
(* LanguageComplexityAnalyzer.  A text is the sequence of its whitespace-   *)
(* separated words; a word records which word it is, whether it is          *)
(* capitalised, and whether a full stop is attached to its end.             *)

Word(word, upper, ends) == [ word |-> word, upper |-> upper, ends |-> ends ]

\* the text of n words that cycles through `distinct` different words and
\* ends a sentence after every per_sentence words, each sentence starting
\* with a capital
WordText(n, distinct, per_sentence) ==
    [ i \in 1..n |->
        Word((i - 1) % distinct, (i - 1) % per_sentence = 0, i % per_sentence = 0) ]

\* str.lower() of a word, as the string split() returns: the full stop stays
\* attached
lower(w) == [ word |-> w.word, ends |-> w.ends ]

\* the sentences re.split(r'[.!?]+', text) yields that are not blank
SentenceCount(text) ==
    Cardinality({ i \in 1..Len(text) : text[i].ends })
    + (IF text # <<>> /\ ~text[Len(text)].ends THEN 1 ELSE 0)

calculate_average_sentence_length(text) ==
    IF text = <<>> \/ SentenceCount(text) = 0
    THEN 0
    ELSE Len(text) \div SentenceCount(text)

calculate_type_token_ratio(text) ==
    IF text = <<>>
    THEN Zero
    ELSE RatMin(One, Rat(Cardinality({ lower(text[i]) : i \in 1..Len(text) }), Len(text)))

\* line 105: max(0.0, min(1.0, (asl - 5) / 20))
NormalizedAsl(asl) == RatMax(Zero, RatMin(One, Rat(asl - 5, 20)))

\* __init__, lines 26-27: the weights for which ValueError is raised
RejectsWeights(asl_weight, ttr_weight) ==
    RatLess(Rat(1, 100), RatAbs(RatSub(RatAdd(asl_weight, ttr_weight), One)))

ValueError == [raised |-> "ValueError"]

\* analyze_complexity of an analyzer built with the weights:
\* <<asl, ttr, complexity>>
ComplexityOf(asl_weight, ttr_weight, text) ==
    IF text = <<>>
    THEN << 0, Zero, Zero >>
    ELSE LET asl == calculate_average_sentence_length(text)
             ttr == calculate_type_token_ratio(text)
         IN << asl, ttr,
               RatAdd(RatMul(asl_weight, NormalizedAsl(asl)), RatMul(ttr_weight, ttr)) >>

\* LanguageComplexityAnalyzer(asl_weight, ttr_weight).analyze_complexity(text)
analyze_complexity(asl_weight, ttr_weight, text) ==
    /\ UNCHANGED <<user_profiles, profile_update_history, persisted, pattern_cache,
                   session_metrics, event_loop>>
    /\ call' = [ op |-> "analyze_complexity", n |-> call.n + 1,
                 asl_weight |-> asl_weight, ttr_weight |-> ttr_weight, text |-> text,
                 rejected |-> RejectsWeights(asl_weight, ttr_weight),
                 ret |-> IF RejectsWeights(asl_weight, ttr_weight)
                         THEN << 0, Zero, ValueError >>
                         ELSE ComplexityOf(asl_weight, ttr_weight, text) ]

----------------------------------------------------------------------------
(* SentimentAnalyzer.  A text is the sequence of its whitespace-separated   *)
(* tokens, the set of emoji that occur in it, and whether it holds          *)
(* whitespace besides; a token is a word (possibly none), capitalised or    *)
(* not, with the punctuation attached to it.                                *)

Token(word, upper, punctuation) ==
    [ word |-> word, upper |-> upper, punctuation |-> punctuation ]

SentimentText(tokens, emoji, padded) ==
    [ tokens |-> tokens, emoji |-> emoji, padded |-> padded ]

\* `not text`
IsEmptyString(text) == text.tokens = <<>> /\ text.emoji = {} /\ ~text.padded

\* entries of sentiment_tokens, lines 17-43, one or two per score class
sentiment_tokens ==
    [ excellent |-> 5, good |-> 3, okay |-> 2, maybe |-> 0, complex |-> -1,
      bad |-> -3, terrible |-> -5 ]

\* entries of emoji_sentiment, lines 46-76, named for the emoji of the key
emoji_sentiment ==
    [ heart_eyes |-> 5, grinning |-> 4, thinking |-> 0, crying |-> -3, vomiting |-> -5 ]

\* word.lower(), then re.sub(r'[^\w]', '', word): the letters of the token
clean_word(token) == token.word

RECURSIVE SumOver(_, _)
SumOver(f, keys) ==
    IF keys = {} THEN 0
    ELSE LET k == CHOOSE x \in keys : TRUE IN f[k] + SumOver(f, keys \ {k})

\* lines 99-106: the tokens that have letters, and the scores of those in
\* the lexicon
CountedTokens(text) ==
    { i \in 1..Len(text.tokens) : clean_word(text.tokens[i]) # "" }

WordScore(token) ==
    IF clean_word(token) \in DOMAIN sentiment_tokens
    THEN sentiment_tokens[clean_word(token)]
    ELSE 0

\* lines 109-112 added to lines 99-106
TotalScore(text) ==
    SumOver([i \in CountedTokens(text) |-> WordScore(text.tokens[i])], CountedTokens(text))
    + SumOver(emoji_sentiment, text.emoji \cap DOMAIN emoji_sentiment)

WordCount(text) ==
    Cardinality(CountedTokens(text))
    + Cardinality(text.emoji \cap DOMAIN emoji_sentiment)

\* mutant: the total is not divided by the number of words
SentimentScoreTotal(text) == FromInt(TotalScore(text))

\* lines 115-118
SentimentScore(text) ==
    IF WordCount(text) > 0 THEN Rat(TotalScore(text), WordCount(text)) ELSE Zero

\* int() of a float: truncation toward zero
IntOf(r) == IF r[1] >= 0 THEN r[1] \div r[2] ELSE -((-r[1]) \div r[2])

\* analyze_sentiment: <<sentiment_score, normalized_sentiment_score>>
SentimentOf(text) ==
    IF IsEmptyString(text)
    THEN << 0, 0 >>
    ELSE << IntOf(SentimentScore(text)),
            IntOf(RatMax(FromInt(-5), RatMin(FromInt(5), SentimentScore(text)))) >>

analyze_sentiment(text) ==
    /\ UNCHANGED <<user_profiles, profile_update_history, persisted, pattern_cache,
                   session_metrics, event_loop>>
    /\ call' = [ op |-> "analyze_sentiment", n |-> call.n + 1, text |-> text,
                 ret |-> SentimentOf(text) ]

----------------------------------------------------------------------------
(* GrammarChecker.count_grammatical_mistakes, over Python strings as TLA+   *)
(* strings.                                                                 *)

CharAt(string, i) == SubSeq(string, i, i)

LowerAlphabet == "abcdefghijklmnopqrstuvwxyz"

UpperAlphabet == "ABCDEFGHIJKLMNOPQRSTUVWXYZ"

LowerLetters == { CharAt(LowerAlphabet, i) : i \in 1..Len(LowerAlphabet) }

UpperLetters == { CharAt(UpperAlphabet, i) : i \in 1..Len(UpperAlphabet) }

Digits == {"0", "1", "2", "3", "4", "5", "6", "7", "8", "9"}

\* the characters \w matches
WordChars == LowerLetters \cup UpperLetters \cup Digits \cup {"_"}

\* the characters of [.!?]
SentenceMarks == {".", "!", "?"}

LowerChar(c) ==
    IF c \in UpperLetters
    THEN CharAt(LowerAlphabet, CHOOSE i \in 1..Len(UpperAlphabet) : CharAt(UpperAlphabet, i) = c)
    ELSE c

\* str.lower()
RECURSIVE LowerString(_)
LowerString(string) ==
    IF string = "" THEN ""
    ELSE LowerChar(CharAt(string, 1)) \o LowerString(SubSeq(string, 2, Len(string)))

\* the maximal stretches <<first, last>> of the string whose characters all
\* lie outside (inside = FALSE) or inside (inside = TRUE) the set
Stretches(string, chars, inside) ==
    { stretch \in (1..Len(string)) \X (1..Len(string)) :
        /\ stretch[1] <= stretch[2]
        /\ \A i \in stretch[1]..stretch[2] : (CharAt(string, i) \in chars) = inside
        /\ stretch[1] = 1 \/ (CharAt(string, stretch[1] - 1) \in chars) # inside
        /\ stretch[2] = Len(string) \/ (CharAt(string, stretch[2] + 1) \in chars) # inside }

\* the words the patterns of informal_patterns match between two \b
informal_words ==
    { "u", "ur", "pls", "plz", "thx", "tnx", "omg", "wtf", "lol", "rofl",
      "btw", "imo", "tbh", "fyi", "2", "4", "b4", "gr8" }

\* the words the patterns of spelling_mistakes match
misspelled_words ==
    { "teh", "recieve", "seperate", "occured", "definately", "neccessary",
      "accomodate", "begining", "beleive", "calender" }

\* lines 54-61: the matches of all patterns in text.lower()
PatternMatches(text) ==
    Cardinality({ w \in Stretches(text, WordChars, TRUE) :
                    SubSeq(LowerString(text), w[1], w[2])
                        \in informal_words \cup misspelled_words })

\* lines 64-67: the pieces re.split(r'[.!?]+', text) yields that are not
\* blank, each as the stretch from its first to its last character
Sentences(text) ==
    { p \in Stretches(text, SentenceMarks, FALSE) :
        \E i \in p[1]..p[2] : CharAt(text, i) # " " }

\* sentence.strip()[0]
FirstCharacter(text, p) ==
    CharAt(text, CHOOSE i \in p[1]..p[2] :
                     /\ CharAt(text, i) # " "
                     /\ \A j \in p[1]..(i - 1) : CharAt(text, j) = " ")

\* line 73: re.search(r'[.!?][a-zA-Z]', sentence)
SearchMarkLetter(text, p) ==
    \E i \in p[1]..(p[2] - 1) :
        /\ CharAt(text, i) \in SentenceMarks
        /\ CharAt(text, i + 1) \in LowerLetters \cup UpperLetters

\* count_grammatical_mistakes
MistakesOf(text) ==
    IF text = ""
    THEN 0
    ELSE PatternMatches(text)
         + Cardinality({ p \in Sentences(text) : FirstCharacter(text, p) \in LowerLetters })
         + Cardinality({ p \in Sentences(text) : SearchMarkLetter(text, p) })

count_grammatical_mistakes(text) ==
    /\ UNCHANGED <<user_profiles, profile_update_history, persisted, pattern_cache,
                   session_metrics, event_loop>>
    /\ call' = [ op |-> "count_grammatical_mistakes", n |-> call.n + 1, text |-> text,
                 ret |-> MistakesOf(text) ]

----------------------------------------------------------------------------
(* The events the HTTP layer delivers.                                      *)

PromptData(users, texts, times, sent) ==
    { [ user_id |-> u, input_text |-> t, input_start_time |-> tt[1],
        input_end_time |-> tt[2], input_sent_time |-> st ] :
      u \in users, t \in texts, tt \in times, st \in sent }

FeedbackTypes == {"positive", "negative", "neutral"}

FeedbackData(users, types) ==
    { [ user_id |-> u, feedback_type |-> ft ] : u \in users, ft \in types }

\* engagement_time 0 stands for an event without engagement.engagement_time
SessionData(ids, durations, endtypes, engagement) ==
    { [ session_id |-> id, session_start |-> 0, session_end |-> d,
        session_duration |-> d, session_end_type |-> et, engagement_time |-> eng ] :
      id \in ids, d \in durations, et \in endtypes, eng \in engagement }

\* <<input_start_time, input_end_time>> in ms: 2 s of typing, none, and an
\* end before the start
TypingTimes == { <<1000, 3000>>, <<1000, 1000>>, <<3000, 1000>> }

----------------------------------------------------------------------------
(* Spec: every operation, two users, short runs.                            *)

Prompts ==
    PromptData(Users, TextsOf({0, 10, 150}, {}, Analyses \ {<<"standard", "intermediate", "neutral", "medium">>}),
               { <<1000, 3000>>, <<3000, 1000>> }, {0, 2000})

Feedbacks == FeedbackData(Users, FeedbackTypes)

Sessions == SessionData({"s1"}, {0, 10, 20}, {"completed"}, {0, 5})

CreateEvent ==
    \E u \in Users :
        call.n < MaxEvents /\ create_user_profile(u, "written")

MessageEvent ==
    \E pd \in Prompts :
        call.n < MaxEvents /\ update_profile_from_prompt(pd, "returns", "written")

FeedbackEvent ==
    \E fd \in Feedbacks :
        call.n < MaxEvents /\ update_profile_from_feedback(fd, "written")

SessionEvent ==
    \E u \in Users :
        \E sd \in Sessions :
            call.n < MaxEvents /\ update_profile_from_session(u, sd, "written")

ParametersQuery ==
    \E u \in Users :
        call.n < MaxEvents /\ get_personalization_parameters(u)

Next ==
    \/ CreateEvent
    \/ MessageEvent
    \/ FeedbackEvent
    \/ SessionEvent
    \/ ParametersQuery

Spec == Init /\ [][Next]_vars

----------------------------------------------------------------------------
(* SpecFeedback: runs of feedback events of one user, long enough for the   *)
(* ratios to reach their caps.                                              *)

\* feedback events per run of SpecFeedback
MaxFeedbackRun == 11

FeedbackRunEvent ==
    \E fd \in FeedbackData({"u1"}, FeedbackTypes) :
        call.n < MaxFeedbackRun /\ update_profile_from_feedback(fd, "written")

NextFeedback == FeedbackRunEvent

SpecFeedback == Init /\ [][NextFeedback]_vars

----------------------------------------------------------------------------
(* SpecDetail: message and feedback events of one user, over texts of every *)
(* length class and analyzer output.                                        *)

\* events per run of SpecDetail
MaxDetailRun == 3

DetailLengths == {0, 10, 80, 150}

DetailPrompts ==
    PromptData({"u1"}, TextsOf(DetailLengths, {10}, Analyses), { <<1000, 3000>> }, {2000})

DetailMessageEvent ==
    \E pd \in DetailPrompts :
        call.n < MaxDetailRun /\ update_profile_from_prompt(pd, "returns", "written")

DetailFeedbackEvent ==
    \E fd \in FeedbackData({"u1"}, FeedbackTypes) :
        call.n < MaxDetailRun /\ update_profile_from_feedback(fd, "written")

NextDetail ==
    \/ DetailMessageEvent
    \/ DetailFeedbackEvent

SpecDetail == Init /\ [][NextDetail]_vars

----------------------------------------------------------------------------
(* SpecTyping: message events of one user over every typing-time case.      *)

\* events per run of SpecTyping
MaxTypingRun == 3

TypingPrompts ==
    PromptData({"u1"},
               TextsOf({0, 10, 80}, {}, {<<"standard", "intermediate", "neutral", "medium">>}),
               TypingTimes, {0, 2000})

TypingMessageEvent ==
    \E pd \in TypingPrompts :
        call.n < MaxTypingRun /\ update_profile_from_prompt(pd, "returns", "written")

NextTyping == TypingMessageEvent

SpecTyping == Init /\ [][NextTyping]_vars

----------------------------------------------------------------------------
(* SpecSessions: session-end events of one user, whose profile a create or  *)
(* a feedback event brought into being.                                     *)

\* events per run of SpecSessions
MaxSessionRun == 4

SessionDurations == {0, 10, 20, 30}

RunSessions == SessionData({"s1"}, SessionDurations, {"completed"}, {0, 5})

SessionRunCreate ==
    call.n < MaxSessionRun /\ create_user_profile("u1", "written")

SessionRunFeedback ==
    \E fd \in FeedbackData({"u1"}, {"positive"}) :
        call.n < MaxSessionRun /\ update_profile_from_feedback(fd, "written")

SessionRunEvent ==
    \E sd \in RunSessions :
        call.n < MaxSessionRun /\ update_profile_from_session("u1", sd, "written")

NextSessions ==
    \/ SessionRunCreate
    \/ SessionRunFeedback
    \/ SessionRunEvent

SpecSessions == Init /\ [][NextSessions]_vars

----------------------------------------------------------------------------
(* SpecAnalyzer: message events of one user in an environment where the     *)
(* language analyzer may raise.                                             *)

\* events per run of SpecAnalyzer
MaxAnalyzerRun == 3

AnalyzerPrompts ==
    PromptData({"u1"},
               TextsOf({0, 10, 150}, {10},
                       {<<"easy", "limited", "negative", "low">>,
                        <<"very_difficult", "advanced", "positive", "high">>}),
               { <<1000, 3000>> }, {2000})

AnalyzerMessageEvent ==
    \E pd \in AnalyzerPrompts :
        \E analyzer \in AnalyzerOutcomes :
            call.n < MaxAnalyzerRun /\ update_profile_from_prompt(pd, analyzer, "written")

NextAnalyzer == AnalyzerMessageEvent

SpecAnalyzer == Init /\ [][NextAnalyzer]_vars

----------------------------------------------------------------------------
(* SpecDialogue: messages of one user handed to the dialogue manager, with  *)
(* every outcome of the external service.                                   *)

\* messages per run of SpecDialogue
MaxDialogueRun == 2

DialoguePrompts ==
    PromptData({"u1"}, TextsOf({0, 10, 150}, {}, Analyses), { <<1000, 3000>> }, {2000})

DialogueMessageEvent ==
    \E pd \in DialoguePrompts :
        \E llm \in LlmOutcomes :
            call.n < MaxDialogueRun /\ process_user_input(pd, "returns", "written", llm)

NextDialogue == DialogueMessageEvent

SpecDialogue == Init /\ [][NextDialogue]_vars

----------------------------------------------------------------------------
(* SpecEvents: message, feedback and session-end events of one user handed  *)
(* to the dialogue manager.                                                 *)

\* events per run of SpecEvents
MaxEventRun == 3

EventPrompts ==
    PromptData({"u1"}, TextsOf({10, 150}, {}, Analyses), { <<1000, 3000>> }, {2000})

EventRunMessage ==
    \E pd \in EventPrompts :
        call.n < MaxEventRun /\ process_user_input(pd, "returns", "written", "answers")

EventRunFeedback ==
    \E fd \in FeedbackData({"u1"}, FeedbackTypes) :
        call.n < MaxEventRun /\ process_feedback(fd, "written")

EventRunSession ==
    \E sd \in SessionData({"s1"}, {10, 20}, {"completed", "abandoned"}, {0}) :
        call.n < MaxEventRun /\ process_session("u1", sd)

NextEvents ==
    \/ EventRunMessage
    \/ EventRunFeedback
    \/ EventRunSession

SpecEvents == Init /\ [][NextEvents]_vars

----------------------------------------------------------------------------
(* SpecLoop: message and feedback events of one user, each handled by a     *)
(* coroutine of the one event loop.                                         *)

LoopPrompts ==
    PromptData({"u1"}, TextsOf({10, 150}, {}, Analyses), { <<1000, 3000>> }, {2000})

LoopCreateMessage ==
    \E t \in Tasks : \E pd \in LoopPrompts : create_task(t, "process_user_input", pd)

LoopCreateFeedback ==
    \E t \in Tasks : \E fd \in FeedbackData({"u1"}, {"positive", "negative"}) :
        create_task(t, "process_feedback", fd)

LoopLoad == \E t \in Tasks : LoadProfile(t)

LoopCompute == \E t \in Tasks : ComputeProfile(t)

LoopStore == \E t \in Tasks : StoreProfile(t)

LoopRecordResponse == \E t \in Tasks : RecordResponse(t)

LoopRunFeedback == \E t \in Tasks : RunFeedback(t)

NextLoop ==
    \/ LoopCreateMessage
    \/ LoopCreateFeedback
    \/ LoopLoad
    \/ LoopCompute
    \/ LoopStore
    \/ LoopRecordResponse
    \/ LoopRunFeedback

SpecLoop == Init /\ [][NextLoop]_vars

----------------------------------------------------------------------------
(* SpecDisk: every operation that writes a profile file, for one user, on a *)
(* disk whose writes may fail.                                              *)

\* events per run of SpecDisk
MaxDiskRun == 3

DiskPrompts ==
    PromptData({"u1"},
               TextsOf({10, 150}, {}, {<<"easy", "limited", "negative", "low">>}),
               { <<1000, 3000>> }, {2000})

DiskSessions == SessionData({"s1"}, {10, 20}, {"completed"}, {5})

DiskCreateEvent ==
    \E disk \in DiskOutcomes :
        call.n < MaxDiskRun /\ create_user_profile("u1", disk)

DiskMessageEvent ==
    \E pd \in DiskPrompts :
        \E disk \in DiskOutcomes :
            call.n < MaxDiskRun /\ update_profile_from_prompt(pd, "returns", disk)

DiskFeedbackEvent ==
    \E fd \in FeedbackData({"u1"}, {"positive", "neutral"}) :
        \E disk \in DiskOutcomes :
            call.n < MaxDiskRun /\ update_profile_from_feedback(fd, disk)

DiskSessionEvent ==
    \E sd \in DiskSessions :
        \E disk \in DiskOutcomes :
            call.n < MaxDiskRun /\ update_profile_from_session("u1", sd, disk)

NextDisk ==
    \/ DiskCreateEvent
    \/ DiskMessageEvent
    \/ DiskFeedbackEvent
    \/ DiskSessionEvent

SpecDisk == Init /\ [][NextDisk]_vars

----------------------------------------------------------------------------
(* SpecDelete: one user's profile created, fed with events and deleted,     *)
(* with every outcome of removing the file.                                 *)

\* events per run of SpecDelete
MaxDeleteRun == 4

DeleteSessions == SessionData({"s1"}, {10, 20}, {"completed", "abandoned"}, {0})

DeleteRunCreate ==
    call.n < MaxDeleteRun /\ create_user_profile("u1", "written")

DeleteRunFeedback ==
    \E fd \in FeedbackData({"u1"}, {"positive", "negative"}) :
        call.n < MaxDeleteRun /\ update_profile_from_feedback(fd, "written")

DeleteRunSession ==
    \E sd \in DeleteSessions :
        call.n < MaxDeleteRun /\ update_profile_from_session("u1", sd, "written")

DeleteRunMessage ==
    \E pd \in PromptData({"u1"}, TextsOf({10}, {}, {<<"easy", "limited", "negative", "low">>}),
                          { <<1000, 3000>> }, {2000}) :
        call.n < MaxDeleteRun /\ process_user_input(pd, "returns", "written", "answers")

DeleteRunDelete ==
    \E unlink \in UnlinkOutcomes :
        call.n < MaxDeleteRun /\ delete_user_profile("u1", unlink)

NextDelete ==
    \/ DeleteRunCreate
    \/ DeleteRunMessage
    \/ DeleteRunFeedback
    \/ DeleteRunSession
    \/ DeleteRunDelete

SpecDelete == Init /\ [][NextDelete]_vars

----------------------------------------------------------------------------
(* SpecPersistence: profiles with timestamps saved and loaded back.         *)

\* save-and-load round trips per run of SpecPersistence
MaxRoundTrips == 1

\* timestamps, in microseconds
Instants == {1, 2}

FeedbackHistories ==
    LET entries == { DatedFeedbackEntry(ft, DateTime(t)) :
                         ft \in {"positive", "negative"}, t \in Instants }
    IN {<<>>} \cup { <<e>> : e \in entries }
              \cup { <<e1, e2>> : e1 \in entries, e2 \in entries }

DatedProfiles ==
    { DatedProfile("u1", DateTime(c), DateTime(u), n, fh) :
        c \in Instants, u \in Instants, n \in {0, 1}, fh \in FeedbackHistories }

RoundTripEvent ==
    \E profile \in DatedProfiles :
        call.n < MaxRoundTrips /\ SaveAndLoad(profile, "written")

NextPersistence == RoundTripEvent

SpecPersistence == Init /\ [][NextPersistence]_vars

----------------------------------------------------------------------------
(* SpecPrompt: enrich_prompt over base prompts and parameter records with   *)
(* present, missing and unrecognised values.                                *)

\* calls per run of SpecPrompt
MaxEnrichCalls == 1

\* a dict without keys
NoKeys == [ key \in {} |-> "" ]

\* the dicts that hold the key with one of the values, or do not hold it
OptionalKey(key, values) == {NoKeys} \cup { key :> v : v \in values }

BasePrompts == { "", "What is machine learning?", "Assistant:", "{personalization_context}" }

ParameterRecords ==
    { a @@ b @@ c @@ d :
        a \in OptionalKey("user_type",
                  {"general", "technical", "casual", "professional", "educational", "admin"}),
        b \in OptionalKey("language_complexity", {"simple", "expert"}),
        c \in OptionalKey("response_style", {"enthusiastic"}),
        d \in OptionalKey("engagement_level", {"high"}) }

EnrichEvent ==
    \E p \in BasePrompts :
        \E params \in ParameterRecords :
            call.n < MaxEnrichCalls /\ enrich_prompt(p, params)

NextPrompt == EnrichEvent

SpecPrompt == Init /\ [][NextPrompt]_vars

----------------------------------------------------------------------------
(* SpecComplexity: analyzers built with weight pairs on both sides of the   *)
(* validation, applied to texts from no word to long sentences.             *)

\* calls per run of SpecComplexity
MaxComplexityCalls == 1

\* -0.5, 0, 0.3, 0.5, 0.505, 0.7, 1, 1.5
Weights ==
    { Rat(-1, 2), Zero, Rat(3, 10), Rat(1, 2), Rat(101, 200), Rat(7, 10), One, Rat(3, 2) }

ComplexityTexts ==
    { WordText(n, distinct, per_sentence) :
        n \in {0, 1, 6, 12, 30}, distinct \in {1, 4, 30}, per_sentence \in {3, 30, 31} }

ComplexityEvent ==
    \E asl_weight \in Weights :
        \E ttr_weight \in Weights :
            \E text \in ComplexityTexts :
                /\ call.n < MaxComplexityCalls
                /\ analyze_complexity(asl_weight, ttr_weight, text)

NextComplexity == ComplexityEvent

SpecComplexity == Init /\ [][NextComplexity]_vars

----------------------------------------------------------------------------
(* SpecSentiment: analyze_sentiment over texts of up to three tokens, with  *)
(* and without emoji.                                                       *)

\* calls per run of SpecSentiment
MaxSentimentCalls == 1

SentimentTokens ==
    { Token("excellent", TRUE, ""), Token("terrible", FALSE, "!"), Token("good", FALSE, ""),
      Token("complex", FALSE, "."), Token("table", FALSE, ""), Token("", FALSE, "...") }

SentimentTexts ==
    { SentimentText(tokens, emoji, padded) :
        tokens \in {<<>>} \cup { <<a>> : a \in SentimentTokens }
                          \cup { <<a, b>> : a \in SentimentTokens, b \in SentimentTokens }
                          \cup { <<a, b, c>> : a \in {Token("excellent", TRUE, ""),
                                                      Token("terrible", FALSE, "!")},
                                               b \in SentimentTokens, c \in SentimentTokens },
        emoji \in { {}, {"heart_eyes"}, {"vomiting", "crying"}, {"rocket"} },
        padded \in BOOLEAN }

SentimentEvent ==
    \E text \in SentimentTexts :
        call.n < MaxSentimentCalls /\ analyze_sentiment(text)

NextSentiment == SentimentEvent

SpecSentiment == Init /\ [][NextSentiment]_vars

----------------------------------------------------------------------------
(* SpecGrammar: count_grammatical_mistakes over every short text of a small *)
(* alphabet and over two whole sentences.                                   *)

\* calls per run of SpecGrammar
MaxGrammarCalls == 1

\* characters per enumerated text
MaxTextLen == 4

GrammarAlphabet == {"a", "I", "u", " ", "."}

RECURSIVE StringsOf(_, _)
StringsOf(chars, len) ==
    IF len = 0 THEN {""}
    ELSE { c \o rest : c \in chars, rest \in StringsOf(chars, len - 1) }

GrammarTexts ==
    UNION { StringsOf(GrammarAlphabet, len) : len \in 0..MaxTextLen }
    \cup { "i am going to the store", "I am going to the store.", "Hello.World",
           "pls recieve teh calender" }

GrammarEvent ==
    \E text \in GrammarTexts :
        call.n < MaxGrammarCalls /\ count_grammatical_mistakes(text)

NextGrammar == GrammarEvent

SpecGrammar == Init /\ [][NextGrammar]_vars

----------------------------------------------------------------------------
(* The claims.                                                              *)

UpdateOps ==
    {"update_profile_from_prompt", "update_profile_from_feedback",
     "update_profile_from_session"}

\* C1 (as claimed): each of the three events, applied for a user_id without a
\* stored profile, leaves a profile for that user that carries the event: a
\* session-end event one counted session, a feedback event one step of
\* feedback_ratio, a message event (like a feedback event) one audit entry.
C1_UnknownUserGetsProfile ==
    (call.op \in UpdateOps /\ call.found = NoProfile) =>
        /\ user_profiles[call.user_id] # NoProfile
        /\ call.op = "update_profile_from_session" =>
               user_profiles[call.user_id].total_sessions = 1
        /\ call.op = "update_profile_from_feedback" =>
               user_profiles[call.user_id].feedback_ratio = Tenth
        /\ call.op # "update_profile_from_session" =>
               Len(profile_update_history[call.user_id]) = 1

\* C2: after any run of feedback events feedback_ratio and
\* positive_feedback_ratio lie in [0,1], and no feedback event lowers
\* feedback_ratio.
C2_RatiosBounded ==
    \A u \in Users :
        user_profiles[u] # NoProfile =>
            /\ RatLeq(Zero, user_profiles[u].feedback_ratio)
            /\ RatLeq(user_profiles[u].feedback_ratio, One)
            /\ RatLeq(Zero, user_profiles[u].positive_feedback_ratio)
            /\ RatLeq(user_profiles[u].positive_feedback_ratio, One)
            /\ (call.op = "update_profile_from_feedback" /\ call.user_id = u) =>
                   RatLeq(IF call.found = NoProfile THEN Zero ELSE call.found.feedback_ratio,
                          user_profiles[u].feedback_ratio)

\* C2 witness: an eleventh consecutive positive event found both ratios at
\* their cap and left them there.
C2_CapHeld ==
    /\ call.op = "update_profile_from_feedback"
    /\ call.data.feedback_type = "positive"
    /\ call.found # NoProfile
    /\ call.found.feedback_ratio = One
    /\ call.found.positive_feedback_ratio = One
    /\ user_profiles[call.user_id].feedback_ratio = One
    /\ user_profiles[call.user_id].positive_feedback_ratio = One

\* the record the claim C3 describes: the three preferences of the profile,
\* or medium/balanced/medium without a profile
ClaimedParameters(profile) ==
    IF profile = NoProfile
    THEN [ language_complexity |-> "medium", response_style |-> "balanced",
           detail_level |-> "medium" ]
    ELSE [ language_complexity |-> profile.preferred_language_complexity,
           response_style |-> profile.preferred_response_style,
           detail_level |-> profile.preferred_detail_level ]

\* C3 (as claimed): get_personalization_parameters returns a record with the
\* keys language_complexity, response_style and detail_level holding the
\* profile's preferences, or medium/balanced/medium when there is no profile.
C3_ParametersCopyPreferences ==
    call.op = "get_personalization_parameters" =>
        /\ {"language_complexity", "response_style", "detail_level"} \subseteq DOMAIN call.ret
        /\ \A k \in {"language_complexity", "response_style", "detail_level"} :
               call.ret[k] = ClaimedParameters(call.found)[k]

\* C4: the profile create_user_profile makes has medium complexity, a
\* conversational or balanced style, medium detail, no sessions, both ratios
\* 0, every average 0 but average_grammatical_accuracy = 1, and empty
\* histories.
C4_NewProfileDefaults ==
    call.op = "create_user_profile" =>
        LET p == user_profiles[call.user_id]
        IN /\ p.preferred_language_complexity = "medium"
           /\ p.preferred_response_style \in {"conversational", "balanced"}
           /\ p.preferred_detail_level = "medium"
           /\ p.total_sessions = 0
           /\ p.feedback_ratio = <<0, 1>>
           /\ p.positive_feedback_ratio = <<0, 1>>
           /\ p.average_session_duration = <<0, 1>>
           /\ p.average_response_time = <<0, 1>>
           /\ p.average_typing_speed = <<0, 1>>
           /\ p.average_sentiment_score = <<0, 1>>
           /\ p.average_language_complexity = <<0, 1>>
           /\ p.average_engagement_time = <<0, 1>>
           /\ p.average_grammatical_accuracy = <<1, 1>>
           /\ p.session_history = <<>>
           /\ p.feedback_history = <<>>

\* C4 witness: create_user_profile has run for a user_id that had no profile.
C4_CreatedForUnknownUser ==
    /\ call.op = "create_user_profile"
    /\ call.found = NoProfile
    /\ user_profiles[call.user_id] # NoProfile

DetailRank(level) ==
    CASE level = "concise" -> 1 [] level = "medium" -> 2 [] level = "detailed" -> 3

\* C5: positive feedback moves preferred_detail_level one step up the scale
\* concise < medium < detailed, negative feedback one step down, both
\* stopping at the ends; any other feedback leaves it alone.
C5_FeedbackStepsDetail ==
    call.op = "update_profile_from_feedback" =>
        LET pre == DetailRank(IF call.found = NoProfile THEN "medium"
                              ELSE call.found.preferred_detail_level)
            post == DetailRank(user_profiles[call.user_id].preferred_detail_level)
            t == call.data.feedback_type
        IN /\ t = "positive" => post = (IF pre = 3 THEN 3 ELSE pre + 1)
           /\ t = "negative" => post = (IF pre = 1 THEN 1 ELSE pre - 1)
           /\ t \notin {"positive", "negative"} => post = pre

\* C5 witness: a positive feedback event found the level at concise and left
\* it at medium.
C5_SteppedFromConcise ==
    /\ call.op = "update_profile_from_feedback"
    /\ call.data.feedback_type = "positive"
    /\ call.found # NoProfile
    /\ call.found.preferred_detail_level = "concise"
    /\ user_profiles[call.user_id].preferred_detail_level = "medium"

\* the lengths of the texts of a user's message events, in the order applied
PromptLengths(history) ==
    [ i \in 1..Len(history) |->
        IF history[i].type = "prompt_update" THEN history[i].data.input_text.len ELSE -1 ]

\* C6: after a message event with a text of more than 100 characters
\* preferred_detail_level is detailed, after one of fewer than 20 it is
\* concise, whatever the analysis of the text and the level before.
C6_LengthDecidesDetail ==
    call.op = "update_profile_from_prompt" =>
        /\ call.data.input_text.len > 100 =>
               user_profiles[call.user_id].preferred_detail_level = "detailed"
        /\ call.data.input_text.len < 20 =>
               user_profiles[call.user_id].preferred_detail_level = "concise"

\* C6 witness: a new user sent messages of 10, 80 and 150 characters in that
\* order, the last one with a limited vocabulary, and the level is detailed.
C6_ThreeMessagesDetailed ==
    /\ call.op = "update_profile_from_prompt"
    /\ PromptLengths(profile_update_history[call.user_id]) = <<10, 80, 150>>
    /\ call.data.input_text.vocabulary_level = "limited"
    /\ ~call.data.input_text.blank
    /\ user_profiles[call.user_id].preferred_detail_level = "detailed"

\* C7: three session-end events with durations x, y, z > 0 on a new profile
\* leave average_session_duration = ((x + y)/2 + z)/2.
C7_RecursiveTwoPoint ==
    \A u \in Users :
        LET p == user_profiles[u] IN
        (/\ p # NoProfile
         /\ Len(p.session_history) = 3
         /\ \A i \in 1..3 : p.session_history[i].duration > 0) =>
            p.average_session_duration =
                Rat(p.session_history[1].duration + p.session_history[2].duration
                        + 2 * p.session_history[3].duration, 4)

\* C7 witness: durations 10, 20, 30 gave 22.5, which is not their mean 20.
C7_TenTwentyThirty ==
    /\ call.op = "update_profile_from_session"
    /\ user_profiles["u1"] # NoProfile
    /\ Len(user_profiles["u1"].session_history) = 3
    /\ user_profiles["u1"].session_history[1].duration = 10
    /\ user_profiles["u1"].session_history[2].duration = 20
    /\ user_profiles["u1"].session_history[3].duration = 30
    /\ user_profiles["u1"].average_session_duration = <<45, 2>>
    /\ user_profiles["u1"].average_session_duration # <<20, 1>>

\* C8 (as claimed): a message event with a positive typing duration and a
\* non-empty text sets average_typing_speed to this message's speed
\* (characters per second) when the stored average is 0, and to
\* (old average + speed)/2 otherwise.
C8_TypingSpeedTwoPoint ==
    (/\ call.op = "update_profile_from_prompt"
     /\ call.data.input_end_time > call.data.input_start_time
     /\ call.data.input_text.len > 0) =>
        LET old == IF call.found = NoProfile THEN <<0, 1>>
                   ELSE call.found.average_typing_speed
            speed == Rat(call.data.input_text.len * 1000,
                         call.data.input_end_time - call.data.input_start_time)
        IN user_profiles[call.user_id].average_typing_speed =
               (IF old = <<0, 1>> THEN speed
                ELSE Rat(old[1] * speed[2] + speed[1] * old[2], 2 * old[2] * speed[2]))

\* C9: a message event whose input_end_time is not after its
\* input_start_time leaves average_typing_speed as it was, and
\* average_typing_speed is never negative.
C9_NoSpeedWithoutDuration ==
    /\ \A u \in Users :
           user_profiles[u] # NoProfile => user_profiles[u].average_typing_speed[1] >= 0
    /\ (/\ call.op = "update_profile_from_prompt"
        /\ call.data.input_end_time <= call.data.input_start_time) =>
           user_profiles[call.user_id].average_typing_speed =
               (IF call.found = NoProfile THEN <<0, 1>>
                ELSE call.found.average_typing_speed)

\* C9 witness: a non-empty message with its end before its start met a
\* positive average and left it unchanged.
C9_SkippedOnNegativeDuration ==
    /\ call.op = "update_profile_from_prompt"
    /\ call.data.input_end_time < call.data.input_start_time
    /\ call.data.input_text.len > 0
    /\ call.found # NoProfile
    /\ call.found.average_typing_speed[1] > 0
    /\ user_profiles[call.user_id].average_typing_speed = call.found.average_typing_speed

\* C10: a session-end event on an existing profile appends exactly one
\* summary (its own) to session_history and adds 1 to total_sessions, also
\* when the same event was applied before; total_sessions always equals the
\* length of session_history.
C10_SessionCounted ==
    /\ \A u \in Users :
           user_profiles[u] # NoProfile =>
               user_profiles[u].total_sessions = Len(user_profiles[u].session_history)
    /\ (call.op = "update_profile_from_session" /\ call.found # NoProfile) =>
           LET p == user_profiles[call.user_id] IN
           /\ Len(p.session_history) = Len(call.found.session_history) + 1
           /\ SubSeq(p.session_history, 1, Len(call.found.session_history))
                  = call.found.session_history
           /\ p.session_history[Len(p.session_history)].session_id = call.data.session_id
           /\ p.session_history[Len(p.session_history)].duration = call.data.session_duration
           /\ p.total_sessions = call.found.total_sessions + 1

\* C10 witness: the event applied last was already the profile's only
\* session, and now counts twice.
C10_ReplayCountedAgain ==
    /\ call.op = "update_profile_from_session"
    /\ call.found # NoProfile
    /\ Len(call.found.session_history) = 1
    /\ call.found.session_history[1].session_id = call.data.session_id
    /\ call.found.session_history[1].duration = call.data.session_duration
    /\ call.found.session_history[1].engagement_time = call.data.engagement_time
    /\ user_profiles[call.user_id].total_sessions = 2
    /\ Len(user_profiles[call.user_id].session_history) = 2

\* C11 (as claimed): when the language analysis raises while a message event
\* is applied, the typing-speed, length and response-time updates of that
\* event are still applied, and the profile is stored and persisted.
C11_MetricsSurviveAnalysisFailure ==
    ( /\ call.op = "update_profile_from_prompt"
      /\ AnalysisRaises(call.data, call.analyzer) ) =>
        LET created == IF call.found = NoProfile
                       THEN NewUserProfile(call.user_id) ELSE call.found
            measured == update_profile_metrics(created, call.data)
        IN /\ call.ret = None
           /\ user_profiles[call.user_id] = RefreshInsights(measured)
           /\ persisted[call.user_id] = measured

\* C12 (as claimed): when the external LLM call fails while a message is
\* processed, the caller gets the generic apology message, no exception
\* propagates, and the profile is as the message update left it.
C12_LlmFailureGivesApology ==
    ( /\ call.op = "process_user_input"
      /\ call.llm = "fails" ) =>
        /\ call.ret = ApologyMessage
        /\ user_profiles[call.user_id] =
               RefreshInsights(PromptProfile(call.found, call.data))

\* C16 (as claimed): the parameter bag handed to the external LLM carries the
\* profile's preferred_language_complexity under the key language_complexity
\* and its preferred_response_style under the key response_style, alongside
\* temperature, max_tokens and detail_level, and the system prompt sent
\* follows the two preferences.
C16_BagCarriesPreferences ==
    ( /\ call.op = "process_user_input"
      /\ call.ret # ErrorMessage ) =>
        LET profile == user_profiles[call.user_id]
        IN /\ {"temperature", "max_tokens", "detail_level",
               "language_complexity", "response_style"} \subseteq DOMAIN call.params
           /\ call.params.language_complexity = profile.preferred_language_complexity
           /\ call.params.response_style = profile.preferred_response_style
           /\ call.llm # "no client" =>
                  /\ call.system_prompt[2] =
                         ComplexityInstruction(profile.preferred_language_complexity)
                  /\ call.system_prompt[3] =
                         StyleInstruction(profile.preferred_response_style)

\* the operations that write the user's profile file
WritingOps == UpdateOps \cup {"create_user_profile"}

\* the in-memory profile the last call leaves when nothing fails
FullEffect ==
    CASE call.op = "create_user_profile" -> NewUserProfile(call.user_id)
      [] call.op = "update_profile_from_prompt" ->
             RefreshInsights(PromptProfile(call.found, call.data))
      [] call.op = "update_profile_from_feedback" ->
             RefreshInsights(FeedbackProfile(call.found, call.data))
      [] call.op = "update_profile_from_session" ->
             RefreshInsights(ApplySession(call.found, call.data))

\* C13: a failed write of the profile file, during creation or during a
\* message, feedback or session-end update, does not propagate: the call
\* returns normally and the in-memory profile carries the full effect of the
\* event, whatever the earlier writes for that user did.  (A session-end
\* event for a user without a profile attempts no write.)
C13_WriteFailureKeepsMemory ==
    ( /\ call.op \in WritingOps
      /\ call.disk # "written"
      /\ ~(call.op = "update_profile_from_session" /\ call.found = NoProfile) ) =>
        /\ call.ret # LookupError
        /\ user_profiles[call.user_id] = FullEffect

\* a third event applied in memory to a profile none of whose writes succeeded
C13_ThirdEventAfterFailedWrites ==
    /\ call.op = "update_profile_from_session"
    /\ call.n = 3
    /\ call.disk = "unchanged"
    /\ persisted["u1"] = NoProfile
    /\ user_profiles["u1"].total_sessions = 1
    /\ user_profiles["u1"].feedback_history # <<>>

\* C14 (as claimed): after delete_user_profile(u) returned True, u has no
\* in-memory profile, no cross-session cache entry and no persisted copy;
\* for a user without an in-memory profile it returns False and changes
\* neither the in-memory map, the cache nor the persisted store.
C14_DeleteRemovesEverything ==
    call.op = "delete_user_profile" =>
        IF call.ret
        THEN /\ user_profiles[call.user_id] = NoProfile
             /\ pattern_cache[call.user_id] = NoPatterns
             /\ persisted[call.user_id] = NoProfile
        ELSE /\ call.found = NoProfile
             /\ user_profiles = call.before.user_profiles
             /\ pattern_cache = call.before.pattern_cache
             /\ persisted = call.before.persisted

\* C14 (amended): after delete_user_profile(u) returned True, u has no
\* in-memory profile, no audit trail and no cross-session cache entry, and
\* no persisted copy if the file could be removed; if removing the file
\* failed, True is returned all the same and the file stays as it was.  For
\* a user without an in-memory profile the call returns False and changes
\* neither the in-memory map, the cache nor the persisted store.
C14_DeleteRemovesWhatItCan ==
    call.op = "delete_user_profile" =>
        IF call.ret
        THEN /\ call.found # NoProfile
             /\ user_profiles[call.user_id] = NoProfile
             /\ profile_update_history[call.user_id] = NoHistory
             /\ pattern_cache[call.user_id] = NoPatterns
             /\ persisted[call.user_id] =
                    IF call.unlink = "removed"
                    THEN NoProfile
                    ELSE call.before.persisted[call.user_id]
        ELSE /\ call.found = NoProfile
             /\ user_profiles = call.before.user_profiles
             /\ pattern_cache = call.before.pattern_cache
             /\ persisted = call.before.persisted

\* a profile with a cache entry and a file deleted, the file removed
C14_DeletedWithCacheAndFile ==
    /\ call.op = "delete_user_profile"
    /\ call.ret
    /\ call.unlink = "removed"
    /\ call.before.pattern_cache["u1"] # NoPatterns
    /\ call.before.persisted["u1"] # NoProfile
    /\ persisted["u1"] = NoProfile

\* C15 (as claimed): saving a profile and loading it back yields a profile
\* equal to the saved one in every field, including created_at, updated_at
\* and the timestamps inside the feedback_history entries.
C15_RoundTripExact ==
    call.op = "save_and_load" => call.ret = call.profile

\* substring, prefix and suffix of strings
StartsWith(string, part) ==
    Len(part) <= Len(string) /\ SubSeq(string, 1, Len(part)) = part

EndsWith(string, part) ==
    /\ Len(part) <= Len(string)
    /\ SubSeq(string, Len(string) - Len(part) + 1, Len(string)) = part

\* the template the claim assigns to a parameter record
ClaimedTemplate(params) ==
    IF "user_type" \in DOMAIN params
       /\ params.user_type \in {"technical", "casual", "professional", "educational"}
    THEN prompt_templates[params.user_type]
    ELSE prompt_templates["general"]

\* C17: enrich_prompt returns the system prompt of the template selected by
\* user_type ("general" for a missing or unrecognised user_type) followed by
\* "\n\nUser: " + p + "\n\nAssistant:"; the result is strictly longer than p
\* and contains "User: " and "Assistant:".
C17_EnrichedPromptShape ==
    call.op = "enrich_prompt" =>
        LET tail == "\n\nUser: " \o call.base_prompt \o "\n\nAssistant:"
        IN /\ EndsWith(call.ret, tail)
           /\ StartsWith(call.ret, ClaimedTemplate(call.params)[1])
           /\ Len(call.ret) - Len(tail) > Len(ClaimedTemplate(call.params)[1])
           /\ Len(call.ret) > Len(call.base_prompt)
           /\ Contains(call.ret, "User: ")
           /\ Contains(call.ret, "Assistant:")

\* an unrecognised user_type served with the general template
C17_UnrecognisedUserType ==
    /\ call.op = "enrich_prompt"
    /\ "user_type" \in DOMAIN call.params
    /\ call.params.user_type = "admin"
    /\ call.base_prompt = "What is machine learning?"
    /\ StartsWith(call.ret, "You are a helpful AI assistant. Use ")

\* C18 (as claimed): construction is rejected whenever asl_weight +
\* ttr_weight is not equal to 1, and for every accepted weight pair the
\* complexity score lies in [0,1] for every text.
C18_WeightsSumToOneScoreBounded ==
    call.op = "analyze_complexity" =>
        /\ call.rejected <=> RatAdd(call.asl_weight, call.ttr_weight) # One
        /\ ~call.rejected =>
               /\ RatLeq(Zero, call.ret[3])
               /\ RatLeq(call.ret[3], One)

\* C19: analyze_sentiment returns two integers that are equal to each other
\* and lie in [-5,5]; for the empty text both are 0.
C19_SentimentPairEqualBounded ==
    call.op = "analyze_sentiment" =>
        /\ call.ret[1] \in -5..5
        /\ call.ret[2] \in -5..5
        /\ call.ret[1] = call.ret[2]
        /\ IsEmptyString(call.text) => call.ret = << 0, 0 >>

\* an average of -5/3 truncated to -1 in both components
C19_NegativeAverageTruncated ==
    /\ call.op = "analyze_sentiment"
    /\ Len(call.text.tokens) = 3
    /\ call.text.emoji = {}
    /\ TotalScore(call.text) = -5
    /\ call.ret = << -1, -1 >>

\* the text holds a sentence mark immediately followed by a letter
MarkBeforeLetter(text) ==
    \E i \in 1..(Len(text) - 1) :
        /\ CharAt(text, i) \in SentenceMarks
        /\ CharAt(text, i + 1) \in LowerLetters \cup UpperLetters

\* C20 (as claimed): besides the pattern matches, count_grammatical_mistakes
\* counts one mistake for each sentence that starts with a lowercase letter
\* and a mistake for a sentence mark immediately followed by a letter; "i am
\* going to the store" yields at least 1 and "I am going to the store."
\* yields 0.
C20_LowercaseAndGluedCounted ==
    call.op = "count_grammatical_mistakes" =>
        LET lowercase_starts ==
                Cardinality({ p \in Sentences(call.text) :
                                FirstCharacter(call.text, p) \in LowerLetters })
            counted == call.ret - PatternMatches(call.text)
        IN /\ counted >= lowercase_starts
           /\ MarkBeforeLetter(call.text) => counted >= lowercase_starts + 1
           /\ ~MarkBeforeLetter(call.text) => counted = lowercase_starts
           /\ call.text = "i am going to the store" => call.ret >= 1
           /\ call.text = "I am going to the store." => call.ret = 0

\* the fraction of the recorded sessions whose end type is "completed"
CompletedFraction(sessions) ==
    Rat(Cardinality({ i \in 1..Len(sessions) : sessions[i].end_type = "completed" }),
        Len(sessions))

\* C21: after a session-end event is applied to a profile, the session
\* completion rate the learner computed for the user equals the fraction of
\* the profile's recorded sessions whose end type is "completed" (1 when
\* every session-end event carried session_end_type = "completed").
C21_CompletionRateIsCompletedFraction ==
    (call.op = "update_profile_from_session" /\ call.found # NoProfile) =>
        pattern_cache[call.user_id].engagement.session_completion_rate =
            CompletedFraction(user_profiles[call.user_id].session_history)

\* the consistency score the claim describes
ClaimedConsistency(profile) ==
    RatAdd(RatAdd(IF profile.preferred_language_complexity = "medium"
                  THEN Rat(3, 10) ELSE Zero,
                  IF profile.preferred_detail_level =
                         NewUserProfile(profile.user_id).preferred_detail_level
                  THEN Rat(3, 10) ELSE Zero),
           IF profile.preferred_response_style = "conversational"
           THEN Rat(4, 10) ELSE Zero)

AtDefaultPreferences(profile) ==
    /\ profile.preferred_language_complexity =
           NewUserProfile(profile.user_id).preferred_language_complexity
    /\ profile.preferred_detail_level =
           NewUserProfile(profile.user_id).preferred_detail_level
    /\ profile.preferred_response_style =
           NewUserProfile(profile.user_id).preferred_response_style

\* C22: the communication consistency score of an analysed profile is 0.3
\* for complexity "medium" plus 0.3 for the default detail level plus 0.4
\* for style "conversational"; a profile at the default preferences scores
\* above 0.8 and gets the "consistent communication preferences" insight.
C22_DefaultProfileIsConsistent ==
    (call.op = "update_profile_from_session" /\ call.found # NoProfile) =>
        LET profile == user_profiles[call.user_id]
            entry == pattern_cache[call.user_id]
        IN /\ entry.communication.communication_consistency = ClaimedConsistency(profile)
           /\ AtDefaultPreferences(profile) =>
                  /\ RatLess(Rat(8, 10), entry.communication.communication_consistency)
                  /\ \E i \in 1..Len(entry.insights) :
                         entry.insights[i] = "User has consistent communication preferences"

\* C23: every insight of an analysis is mapped to exactly one recommendation:
\* the recommendations list is as long as the insights list and its i-th
\* entry is the recommendation of the i-th insight.
C23_OneRecommendationPerInsight ==
    (call.op = "update_profile_from_session" /\ call.found # NoProfile) =>
        LET analysis == user_profiles[call.user_id].cross_session_insights
        IN /\ Len(analysis.recommendations) = Len(analysis.insights)
           /\ \A i \in 1..Len(analysis.insights) :
                  RecommendationsOf(analysis.insights[i]) = << analysis.recommendations[i] >>

\* the types of the feedback events applied for a user, in order, read from
\* the audit trail
FeedbackEventTypes(history) ==
    IF history = NoHistory
    THEN <<>>
    ELSE LET events == SelectSeq(history, LAMBDA e : e.type = "feedback_update")
         IN [ i \in 1..Len(events) |-> events[i].data.feedback_type ]

PositiveAmong(types) == Cardinality({ i \in 1..Len(types) : types[i] = "positive" })

\* the improvement signal the claim assigns to a sequence of feedback events
ClaimedImprovement(types) ==
    IF Len(types) < 3
    THEN "insufficient_data"
    ELSE LET early == PositiveAmong(SubSeq(types, 1, 3))
             recent == PositiveAmong(SubSeq(types, Len(types) - 2, Len(types)))
         IN IF recent > early THEN "improving"
            ELSE IF recent < early THEN "declining"
            ELSE "stable"

\* C24: the feedback improvement signal computed for a user is
\* "insufficient_data" while the user has sent fewer than 3 feedback events,
\* and otherwise compares the positive events among the 3 earliest with
\* those among the 3 most recent.
C24_ImprovementSignalCountsEvents ==
    ( /\ call.op = "update_profile_from_session"
      /\ call.found # NoProfile
      /\ user_profiles[call.user_id].feedback_history # <<>> ) =>
        pattern_cache[call.user_id].feedback.improvement_pattern =
            ClaimedImprovement(FeedbackEventTypes(profile_update_history[call.user_id]))

\* C25: every feedback event handed to process_feedback and every session
\* event handed to process_session mutates the stored profile: after a
\* feedback event feedback_ratio has grown by 0.1 (capped at 1) and
\* feedback_history has grown; after a session event of a known user
\* total_sessions has grown by 1 and session_history has one more entry.
C25_DialogueEventsReachProfile ==
    LET before == IF call.found = NoProfile THEN NewUserProfile(call.user_id)
                  ELSE call.found
        after == user_profiles[call.user_id]
    IN /\ call.op = "process_feedback" =>
              /\ after # NoProfile
              /\ after.feedback_ratio = RatMin(One, RatAdd(before.feedback_ratio, Tenth))
              /\ Len(after.feedback_history) > Len(before.feedback_history)
       /\ (call.op = "process_session" /\ call.found # NoProfile) =>
              /\ after.total_sessions = before.total_sessions + 1
              /\ Len(after.session_history) = Len(before.session_history) + 1

\* the coroutines whose profile update of the user has been stored
StoredUpdates(user_id) ==
    { t \in Tasks : /\ event_loop.tasks[t] # NoTask
                    /\ event_loop.tasks[t].handler = "process_user_input"
                    /\ event_loop.tasks[t].data.user_id = user_id
                    /\ event_loop.tasks[t].pc \in {"awaiting", "done"} }

AuditedUpdates(user_id) ==
    IF profile_update_history[user_id] = NoHistory
    THEN 0
    ELSE Len(SelectSeq(profile_update_history[user_id],
                       LAMBDA e : e.type = "prompt_update"))

\* C26: when events of one user are handled as interleaved coroutines of one
\* event loop, no other update of the user's profile happens between the
\* read and the store of an event's update, and no update is lost: every
\* stored update is in the audit trail.
C26_UpdatesNotInterleaved ==
    /\ \A t \in Tasks :
           ( /\ event_loop.tasks[t] # NoTask
             /\ event_loop.tasks[t].pc \in {"loaded", "computed"} ) =>
               user_profiles[event_loop.tasks[t].data.user_id] =
                   event_loop.tasks[t].loaded
    /\ \A u \in Users : AuditedUpdates(u) = Cardinality(StoredUpdates(u))

\* one coroutine is suspended at its await while another one of the same
\* user is inside its update
C26_UpdateWhileOtherAwaits ==
    \E t, o \in Tasks :
        /\ event_loop.tasks[t] # NoTask
        /\ event_loop.tasks[o] # NoTask
        /\ event_loop.tasks[t].pc = "awaiting"
        /\ event_loop.tasks[o].pc = "computed"
        /\ event_loop.tasks[t].data.user_id = event_loop.tasks[o].data.user_id
        /\ event_loop.tasks[o].profile # event_loop.tasks[o].loaded

\* C27: each feedback event applied by update_profile_from_feedback appends
\* exactly one entry to feedback_history: after k events on a new profile
\* the history has k entries, the new entry is the event's and comes last,
\* and the earlier entries are as they were.
C27_OneEntryPerFeedback ==
    call.op = "update_profile_from_feedback" =>
        LET before == IF call.found = NoProfile THEN <<>>
                      ELSE call.found.feedback_history
            after == user_profiles[call.user_id].feedback_history
        IN /\ Len(after) = Len(before) + 1
           /\ SubSeq(after, 1, Len(before)) = before
           /\ after[Len(after)].type = call.data.feedback_type
           /\ Len(after) =
                  Len(FeedbackEventTypes(profile_update_history[call.user_id]))

\* C28: after any sequence of message, feedback and session-end events on
\* profiles created in the run, every profile's preferred_language_complexity
\* is simple, medium or complex, its preferred_response_style is
\* conversational, professional, enthusiastic or balanced, and its
\* preferred_detail_level is concise, medium or detailed.
C28_PreferencesEnumerated ==
    \A u \in Users :
        user_profiles[u] # NoProfile =>
            /\ user_profiles[u].preferred_language_complexity \in
                   {"simple", "medium", "complex"}
            /\ user_profiles[u].preferred_response_style \in
                   {"conversational", "professional", "enthusiastic", "balanced"}
            /\ user_profiles[u].preferred_detail_level \in
                   {"concise", "medium", "detailed"}

\* a session-end event applied to a profile whose three preferences a
\* message has moved away from the defaults
C28_SessionAfterPreferencesMoved ==
    /\ call.op = "update_profile_from_session"
    /\ call.found # NoProfile
    /\ user_profiles[call.user_id].preferred_language_complexity = "complex"
    /\ user_profiles[call.user_id].preferred_response_style = "enthusiastic"
    /\ user_profiles[call.user_id].preferred_detail_level # "medium"

\* C29: whenever a message, feedback or session-end update has returned and
\* its disk write succeeded, the persisted record of the user equals the
\* in-memory profile in every field, cross_session_insights included.
C29_PersistedEqualsMemory ==
    (call.op \in UpdateOps /\ call.disk = "written") =>
        persisted[call.user_id] = user_profiles[call.user_id]

\* the first event after a deletion of its user's profile
FirstEventAfterDelete ==
    /\ call.op = "delete_user_profile"
    /\ call.ret
    /\ call'.op \in {"process_user_input", "update_profile_from_feedback"}
    /\ call'.user_id = call.user_id

\* the profile an event produces from a fresh default profile
FromFreshProfile(op, data) ==
    IF op = "update_profile_from_feedback"
    THEN FeedbackProfile(NoProfile, data)
    ELSE PromptProfile(NoProfile, data)

\* C30: the first message or feedback event after delete_user_profile(u)
\* finds no profile and leaves the profile the event produces from a fresh
\* default one: session_history is empty, total_sessions is 0, the ratios
\* are those of a profile that started at 0, and get_user_insights(u)
\* returns no pattern from before the deletion.
C30_FreshProfileAfterDelete ==
    [][ FirstEventAfterDelete =>
            /\ call'.found = NoProfile
            /\ user_profiles'[call.user_id] = FromFreshProfile(call'.op, call'.data)
            /\ user_profiles'[call.user_id].session_history = <<>>
            /\ user_profiles'[call.user_id].total_sessions = 0
            /\ RatLeq(user_profiles'[call.user_id].feedback_ratio, Tenth)
            /\ RatLeq(user_profiles'[call.user_id].positive_feedback_ratio, Tenth)
            /\ user_profiles'[call.user_id].cross_session_insights = EmptyDict
            /\ get_user_insights(pattern_cache', call.user_id) = EmptyDict ]_vars

\* The third call of a run is a message that found no profile although the
\* first call was a message as well: the call between them deleted the
\* profile the first message had created.
C30_MessageAfterDelete ==
    /\ call.op = "process_user_input"
    /\ call.n = 3
    /\ call.found = NoProfile
    /\ Len(session_metrics) = 4
    /\ user_profiles[call.user_id] # NoProfile

====
